---------------------------- MODULE Spec2Model ----------------------------
(***************************************************************************)
(* A model of nayuki/FastCGI-library: the record codec (src/fastcgi.py),   *)
(* the pooled gateway with its thread pool (src/fastcgi/wsgi.py) and the   *)
(* single-threaded coalescing gateway (src/wsgi.py).                       *)
(*                                                                         *)
(* Four state machines share the module, each with its own specification:  *)
(*   SpecCodec  records are serialized onto a byte stream and read back;   *)
(*   SpecCalls  one call of a codec function on sample arguments;          *)
(*   SpecPool   ThreadPoolExecutor: submit, workers and the cleaner        *)
(*              (FairSpecPool adds the scheduler's fairness);              *)
(*   SpecConn   one client connection driven through a gateway's record    *)
(*              loop and request processing.                               *)
(* A specification leaves the variables of the other machines unchanged.   *)
(***************************************************************************)
EXTENDS Integers, Sequences, FiniteSets, TLC

VARIABLES
    \* ---- codec machine ----
    stream,      \* bytes written to the stream and not yet read
    sent,        \* records serialized onto the stream, in order
    received,    \* results of Record.read_from_stream, in order
    writer,      \* "open", or "closed" once the writing end has shut the stream
    \* ---- call machine (one call of a codec function) ----
    call,        \* the function called and its arguments
    outcome,     \* what the call returned or raised; Pending before the call
    \* ---- pool machine (ThreadPoolExecutor) ----
    min_workers,       \* _min_workers
    max_workers,       \* _max_workers
    queue,             \* _queue: task ids, 0 standing for the None sentinel
    num_workers,       \* _num_workers
    num_idle_workers,  \* _num_idle_workers
    worker_pc,         \* where each worker thread is in _worker
    worker_item,       \* the item each worker holds (local variable item)
    cleaner_pc,        \* where the cleaner thread is in _cleaner
    num_submitted,     \* history: calls of submit so far (the next task's id - 1)
    num_sentinels,     \* history: sentinels the cleaner has enqueued
    dequeued,          \* history: task ids in the order workers dequeued them
    raised,            \* history: tasks whose call raised
    \* ---- connection machine (Server._make_task.run / WsgiServer._handle_client_socket) ----
    variant,       \* "pooled": src/fastcgi/wsgi.py; "single": src/wsgi.py
    conn_pc,       \* "read": in the record loop; "call": inside the application call;
                   \* "iter": iterating the application's result; "done": handler left
    conn_exc,      \* the exception that left the handler, or NoExc
    sock_open,     \* the client socket has not been closed by the handler
    pipe_left,     \* records the peer still accepts before sends raise BrokenPipeError
                   \* (Unlimited: the peer never closes)
    sock_out,      \* records sent on the socket, in order
    req,           \* the local variable req: a _Request, or NoReq
    num_reads,     \* history: calls of Record.read_from_socket
    last_read,     \* history: the result of the last read_from_socket
    req_marks,     \* history: per accepted BeginRequest, its request id and Len(sock_out)
    completed,     \* history: ordinals of requests whose _process returned
    app_ops,       \* history: application callbacks and yields on this connection
    app_calls,     \* history: invocations of the application
    body_given,    \* history: the byte strings passed to write() or yielded, this request
    stdout_writes, \* history: the byte strings passed to _write_stdout of src/wsgi.py, this request
    accepted,      \* history: arguments of the last start_response that returned
    has_close,     \* the result iterable exposes close
    close_calls,   \* history: calls of result.close(), this request
    environ        \* history: what the application was last invoked with

codecVars == <<stream, sent, received, writer>>

callVars == <<call, outcome>>

connVars == <<variant, conn_pc, conn_exc, sock_open, pipe_left, sock_out, req, num_reads,
              last_read, req_marks, completed, app_ops, app_calls, body_given, stdout_writes,
              accepted, has_close, close_calls, environ>>

poolVars == <<min_workers, max_workers, queue, num_workers, num_idle_workers,
              worker_pc, worker_item, cleaner_pc, num_submitted, num_sentinels,
              dequeued, raised>>

-----------------------------------------------------------------------------
(* Generic helpers                                                         *)

Min(a, b) == IF a < b THEN a ELSE b

Max(a, b) == IF a > b THEN a ELSE b

\* Python's b[i:j] on a sequence, 0-based, clamped to the sequence.
Slice(b, i, j) == SubSeq(b, i + 1, Min(j, Len(b)))

\* b"\0" * n
Zeros(n) == [k \in 1..n |-> 0]

Range(s) == {s[k] : k \in 1..Len(s)}

\* An exception raised by the code, as a value.
Error(exc, msg) == [kind |-> "Error", exc |-> exc, msg |-> msg]

IsError(x) == x.kind = "Error"

\* Record.read_from_stream's None.
None == [kind |-> "None"]

-----------------------------------------------------------------------------
(* src/fastcgi.py: utilities and struct formats                            *)

\* A variant of BitWidthOk that tests only the upper limit.
BitWidthOkUnsigned(val, width) == val < 2 ^ width

\* _check_bit_width: val >> width != 0 raises (Python's >> floors, so every
\* negative val fails too).  TRUE when the check passes.
BitWidthOk(val, width) == (val \div (2 ^ width)) = 0

\* A 16-bit field packed low byte first.
PackU16LittleEndian(n) == <<n % 256, n \div 256>>

\* struct.pack(">H", n) and struct.pack(">I", n)
PackU16(n) == <<n \div 256, n % 256>>

UnpackU16(b) == b[1] * 256 + b[2]

\* A Python int that a 32-bit field may hold is kept as its two halves, the
\* value being hi * 2^16 + lo with 0 <= lo < 2^16 (hi is negative for a
\* negative value): the model checker's own integers stop at 2^31 - 1.
Wide(hi, lo) == [hi |-> hi, lo |-> lo]

\* _check_bit_width(val, 32, ...) : val >> 32 is hi >> 16.
WideBitWidthOk(val) == BitWidthOk(val.hi, 16)

PackU32(val) == PackU16(val.hi) \o PackU16(val.lo)

UnpackU32(b) == Wide(UnpackU16(SubSeq(b, 1, 2)), UnpackU16(SubSeq(b, 3, 4)))

\* str.encode("ISO-8859-1"): a string is a sequence of code points; a code
\* point above 255 raises UnicodeEncodeError, any other maps to its byte.
EncodeLatin1(s) ==
    IF \E k \in 1..Len(s) : s[k] > 255
    THEN Error("UnicodeEncodeError", "ISO-8859-1")
    ELSE [kind |-> "Bytes", bytes |-> [k \in 1..Len(s) |-> s[k]]]

\* bytes.decode("ISO-8859-1"): every byte maps to the code point of its value.
DecodeLatin1(b) == [k \in 1..Len(b) |-> b[k]]

-----------------------------------------------------------------------------
(* src/fastcgi.py: name-value pairs.  A dict is the sequence of its        *)
(* <<key, value>> items in insertion order, keys distinct; a set is the    *)
(* sequence of its elements in iteration order.                            *)

DictKeys(d) == {d[k][1] : k \in 1..Len(d)}

DictItems(d) == {d[k] : k \in 1..Len(d)}

\* result[key] = val : an existing key keeps its place and takes the value.
DictSet(d, key, val) ==
    IF key \in DictKeys(d)
    THEN [k \in 1..Len(d) |-> IF d[k][1] = key THEN <<key, val>> ELSE d[k]]
    ELSE Append(d, <<key, val>>)

\* dict.__eq__ : the same items, whatever the order.
DictEq(d1, d2) == DictItems(d1) = DictItems(d2)

\* One length of name_values_to_dict's inner loop, read at cursor i (0-based).
NvReadLength(b, i) ==
    IF i >= Len(b) THEN Error("IndexError", "index out of range")
    ELSE IF b[i + 1] < 128 THEN [kind |-> "Len", n |-> b[i + 1], next |-> i + 1]
    ELSE IF Len(Slice(b, i, i + 4)) # 4 THEN Error("struct.error", "unpack requires 4 bytes")
    ELSE \* struct.unpack(">I", ...)[0] ^ (1 << 31): the first byte is >= 128
         \* here, so the xor clears its high bit.
         LET w == UnpackU32(Slice(b, i, i + 4)) IN
         [kind |-> "Len", n |-> (w.hi - 32768) * 65536 + w.lo, next |-> i + 4]

RECURSIVE NvDecodeFrom(_, _, _)
NvDecodeFrom(b, i, result) ==
    IF i >= Len(b) THEN [kind |-> "Dict", items |-> result]
    ELSE LET l0 == NvReadLength(b, i) IN
         IF IsError(l0) THEN l0
         ELSE LET l1 == NvReadLength(b, l0.next) IN
              IF IsError(l1) THEN l1
              ELSE LET keyb == Slice(b, l1.next, l1.next + l0.n)
                       j    == l1.next + l0.n
                       valb == Slice(b, j, j + l1.n)
                       e    == j + l1.n
                   IN IF e > Len(b) THEN Error("EOFError", "")
                      ELSE NvDecodeFrom(b, e, DictSet(result, DecodeLatin1(keyb), DecodeLatin1(valb)))

name_values_to_dict(b) == NvDecodeFrom(b, 0, <<>>)

\* A length packed in one byte up to and including 128.
NvPackLengthShortTo128(n) ==
    IF n <= 128 THEN <<n>> ELSE PackU32(Wide((n \div 65536) + 32768, n % 65536))

\* One length as dict_to_name_values packs it.
\* struct.pack(">I", n | (1 << 31)) sets the high bit of the high half.
NvPackLength(n) ==
    IF n < 128 THEN <<n>> ELSE PackU32(Wide((n \div 65536) + 32768, n % 65536))

RECURSIVE NvEncodeFrom(_, _)
NvEncodeFrom(d, k) ==
    IF k > Len(d) THEN [kind |-> "Bytes", bytes |-> <<>>]
    ELSE LET keyb == EncodeLatin1(d[k][1])
             valb == EncodeLatin1(d[k][2])
         IN IF IsError(keyb) THEN keyb
            ELSE IF IsError(valb) THEN valb
            ELSE LET rest == NvEncodeFrom(d, k + 1) IN
                 IF IsError(rest) THEN rest
                 ELSE [kind |-> "Bytes",
                       bytes |-> NvPackLength(Len(keyb.bytes)) \o NvPackLength(Len(valb.bytes))
                                 \o keyb.bytes \o valb.bytes \o rest.bytes]

dict_to_name_values(d) == NvEncodeFrom(d, 1)

-----------------------------------------------------------------------------
(* src/fastcgi.py: the record classes.  A record is a TLA+ record whose    *)
(* kind is its class; a constructor yields the record or the error raised. *)

\* BeginRequestRecord.Role and EndRequestRecord.ProtocolStatus values.
RoleValue(role) ==
    CASE role = "RESPONDER" -> 1 [] role = "AUTHORIZER" -> 2 [] role = "FILTER" -> 3

Roles == {"RESPONDER", "AUTHORIZER", "FILTER"}

ProtocolStatusValue(ps) ==
    CASE ps = "REQUEST_COMPLETE" -> 0 [] ps = "CANT_MPX_CONN" -> 1
      [] ps = "OVERLOADED" -> 2 [] ps = "UNKNOWN_ROLE" -> 3

ProtocolStatuses == {"REQUEST_COMPLETE", "CANT_MPX_CONN", "OVERLOADED", "UNKNOWN_ROLE"}

\* Record.__init__
RecordInitError(reqid, padlen) ==
    IF ~BitWidthOk(reqid, 16) THEN Error("ValueError", "Request ID out of range")
    ELSE IF ~BitWidthOk(padlen, 8) THEN Error("ValueError", "Padding length out of range")
    ELSE None

\* _SimpleRecord.__init__ for the class named kind.
SimpleRecord(kind, reqid, content, padlen) ==
    IF IsError(RecordInitError(reqid, padlen)) THEN RecordInitError(reqid, padlen)
    ELSE IF ~BitWidthOk(Len(content), 16) THEN Error("ValueError", "Content too long")
    ELSE [kind |-> kind, request_id |-> reqid, padding_length |-> padlen, content |-> content]

\* A variant of RequestSimpleRecord without the test of request id 0.
RequestSimpleRecordAcceptsZero(kind, reqid, content, padlen) ==
    SimpleRecord(kind, reqid, content, padlen)

\* ParamsRecord, StdinRecord, StdoutRecord, StderrRecord, DataRecord: each
\* __init__ rejects request id 0 and defers to _SimpleRecord.
RequestSimpleRecord(kind, reqid, content, padlen) ==
    IF reqid = 0 THEN Error("ValueError", "Invalid request ID")
    ELSE SimpleRecord(kind, reqid, content, padlen)

ParamsRecord(reqid, content, padlen) == RequestSimpleRecord("Params", reqid, content, padlen)

StdinRecord(reqid, content, padlen) == RequestSimpleRecord("Stdin", reqid, content, padlen)

StdoutRecord(reqid, content, padlen) == RequestSimpleRecord("Stdout", reqid, content, padlen)

StderrRecord(reqid, content, padlen) == RequestSimpleRecord("Stderr", reqid, content, padlen)

DataRecord(reqid, content, padlen) == RequestSimpleRecord("Data", reqid, content, padlen)

CustomRecord(type, reqid, content, padlen) ==
    IF ~BitWidthOk(type, 8) THEN Error("ValueError", "Type out of range")
    ELSE LET r == SimpleRecord("Custom", reqid, content, padlen) IN
         IF IsError(r) THEN r
         ELSE [kind |-> "Custom", type |-> type, request_id |-> reqid,
               padding_length |-> padlen, content |-> content]

BeginRequestRecord(reqid, role, keepconn, padlen) ==
    IF reqid = 0 THEN Error("ValueError", "Invalid request ID")
    ELSE IF IsError(RecordInitError(reqid, padlen)) THEN RecordInitError(reqid, padlen)
    ELSE [kind |-> "BeginRequest", request_id |-> reqid, padding_length |-> padlen,
          role |-> role, keep_conn |-> keepconn]

AbortRequestRecord(reqid, padlen) ==
    IF reqid = 0 THEN Error("ValueError", "Invalid request ID")
    ELSE IF IsError(RecordInitError(reqid, padlen)) THEN RecordInitError(reqid, padlen)
    ELSE [kind |-> "AbortRequest", request_id |-> reqid, padding_length |-> padlen]

EndRequestRecord(reqid, appstat, protostat, padlen) ==
    IF reqid = 0 THEN Error("ValueError", "Invalid request ID")
    ELSE IF IsError(RecordInitError(reqid, padlen)) THEN RecordInitError(reqid, padlen)
    ELSE IF ~WideBitWidthOk(appstat) THEN Error("ValueError", "Application status out of range")
    ELSE [kind |-> "EndRequest", request_id |-> reqid, padding_length |-> padlen,
          application_status |-> appstat, protocol_status |-> protostat]

\* names: the set's elements in iteration order.
GetValuesRecord(names, padlen) ==
    IF IsError(RecordInitError(0, padlen)) THEN RecordInitError(0, padlen)
    ELSE [kind |-> "GetValues", request_id |-> 0, padding_length |-> padlen, names |-> names]

GetValuesResultRecord(pairs, padlen) ==
    IF IsError(RecordInitError(0, padlen)) THEN RecordInitError(0, padlen)
    ELSE [kind |-> "GetValuesResult", request_id |-> 0, padding_length |-> padlen, pairs |-> pairs]

UnknownTypeRecord(unknowntype, padlen) ==
    IF IsError(RecordInitError(0, padlen)) THEN RecordInitError(0, padlen)
    ELSE IF ~BitWidthOk(unknowntype, 8) THEN Error("ValueError", "Type out of range")
    ELSE [kind |-> "UnknownType", request_id |-> 0, padding_length |-> padlen,
          unknown_type |-> unknowntype]

\* The TYPE class attributes and CustomRecord.get_type.
get_type(r) ==
    CASE r.kind = "BeginRequest" -> 1
      [] r.kind = "AbortRequest" -> 2
      [] r.kind = "EndRequest" -> 3
      [] r.kind = "Params" -> 4
      [] r.kind = "Stdin" -> 5
      [] r.kind = "Stdout" -> 6
      [] r.kind = "Stderr" -> 7
      [] r.kind = "Data" -> 8
      [] r.kind = "GetValues" -> 9
      [] r.kind = "GetValuesResult" -> 10
      [] r.kind = "UnknownType" -> 11
      [] r.kind = "Custom" -> r.type

\* get_content of each class: the content bytes, or the error raised.
get_content(r) ==
    CASE r.kind = "BeginRequest" ->
           [kind |-> "Bytes",
            bytes |-> PackU16(RoleValue(r.role)) \o <<IF r.keep_conn THEN 1 ELSE 0>> \o Zeros(5)]
      [] r.kind = "AbortRequest" -> [kind |-> "Bytes", bytes |-> <<>>]
      [] r.kind = "EndRequest" ->
           [kind |-> "Bytes",
            bytes |-> PackU32(r.application_status)
                      \o <<ProtocolStatusValue(r.protocol_status)>> \o Zeros(3)]
      [] r.kind = "GetValues" ->
           dict_to_name_values([k \in 1..Len(r.names) |-> <<r.names[k], <<>>>>])
      [] r.kind = "GetValuesResult" -> dict_to_name_values(r.pairs)
      [] r.kind = "UnknownType" -> [kind |-> "Bytes", bytes |-> <<r.unknown_type>> \o Zeros(7)]
      [] OTHER -> [kind |-> "Bytes", bytes |-> r.content]

\* Record._VERSION
VERSION == 1

\* Record.to_bytes: the frame, or the error raised.
to_bytes(r) ==
    LET content == get_content(r) IN
    IF ~BitWidthOk(get_type(r), 8) THEN Error("ValueError", "Type out of range")
    ELSE IF IsError(content) THEN content
    ELSE IF ~BitWidthOk(Len(content.bytes), 16) THEN Error("ValueError", "Content too long")
    ELSE [kind |-> "Bytes",
          bytes |-> <<VERSION, get_type(r)>> \o PackU16(r.request_id) \o PackU16(Len(content.bytes))
                    \o <<r.padding_length, 0>> \o content.bytes \o Zeros(r.padding_length)]

\* Record.__eq__: the same class and equal attributes; a set or dict
\* attribute compares without regard to order.
RecordEq(a, b) ==
    /\ a.kind = b.kind
    /\ CASE a.kind = "GetValues" ->
              /\ a.padding_length = b.padding_length
              /\ Range(a.names) = Range(b.names)
         [] a.kind = "GetValuesResult" ->
              /\ a.padding_length = b.padding_length
              /\ DictEq(a.pairs, b.pairs)
         [] OTHER -> a = b

\* The parse_content static methods.  struct.unpack raises struct.error
\* unless the content has exactly the format's size; pad bytes ("x") are
\* skipped without being examined.
BeginRequestParseContent(reqid, content, padlen) ==
    IF Len(content) # 8 THEN Error("struct.error", "unpack requires 8 bytes")
    ELSE LET roleint  == UnpackU16(content)
             flagsint == content[3]
         IN IF roleint \notin {RoleValue(m) : m \in Roles}
            THEN Error("ValueError", "Unrecognized role")
            ELSE IF (flagsint \div 2) # 0     \* flagsint &= ~_FLAG_KEEP_CONN; flagsint != 0
            THEN Error("ValueError", "Unrecognized flag")
            ELSE BeginRequestRecord(reqid, CHOOSE m \in Roles : RoleValue(m) = roleint,
                                    (flagsint % 2) # 0, padlen)

AbortRequestParseContent(reqid, content, padlen) ==
    IF Len(content) # 0 THEN Error("struct.error", "unpack requires 0 bytes")
    ELSE AbortRequestRecord(reqid, padlen)

EndRequestParseContent(reqid, content, padlen) ==
    IF Len(content) # 8 THEN Error("struct.error", "unpack requires 8 bytes")
    ELSE LET appstat      == UnpackU32(content)
             protostatint == content[5]
         IN IF protostatint \notin {ProtocolStatusValue(m) : m \in ProtocolStatuses}
            THEN Error("ValueError", "Unrecognized protocol status")
            ELSE EndRequestRecord(reqid, appstat,
                     CHOOSE m \in ProtocolStatuses : ProtocolStatusValue(m) = protostatint, padlen)

GetValuesParseContent(reqid, content, padlen) ==
    IF reqid # 0 THEN Error("ValueError", "Invalid request ID")
    ELSE LET pairs == name_values_to_dict(content) IN
         IF IsError(pairs) THEN pairs
         ELSE IF \E k \in 1..Len(pairs.items) : pairs.items[k][2] # <<>>
         THEN Error("ValueError", "Non-empty value")
         ELSE GetValuesRecord([k \in 1..Len(pairs.items) |-> pairs.items[k][1]], padlen)

GetValuesResultParseContent(reqid, content, padlen) ==
    IF reqid # 0 THEN Error("ValueError", "Invalid request ID")
    ELSE LET pairs == name_values_to_dict(content) IN
         IF IsError(pairs) THEN pairs
         ELSE GetValuesResultRecord(pairs.items, padlen)

UnknownTypeParseContent(reqid, content, padlen) ==
    IF reqid # 0 THEN Error("ValueError", "Invalid request ID")
    ELSE IF Len(content) # 8 THEN Error("struct.error", "unpack requires 8 bytes")
    ELSE UnknownTypeRecord(content[1], padlen)

\* The match statement of Record.read_from_stream.
ParseRecord(type, reqid, content, padlen) ==
    CASE type = 1  -> BeginRequestParseContent(reqid, content, padlen)
      [] type = 2  -> AbortRequestParseContent(reqid, content, padlen)
      [] type = 3  -> EndRequestParseContent(reqid, content, padlen)
      [] type = 4  -> ParamsRecord(reqid, content, padlen)
      [] type = 5  -> StdinRecord(reqid, content, padlen)
      [] type = 6  -> StdoutRecord(reqid, content, padlen)
      [] type = 7  -> StderrRecord(reqid, content, padlen)
      [] type = 8  -> DataRecord(reqid, content, padlen)
      [] type = 9  -> GetValuesParseContent(reqid, content, padlen)
      [] type = 10 -> GetValuesResultParseContent(reqid, content, padlen)
      [] type = 11 -> UnknownTypeParseContent(reqid, content, padlen)
      [] OTHER     -> CustomRecord(type, reqid, content, padlen)

\* A variant of VersionMatches that accepts every version byte.
VersionIgnored(version) == TRUE

\* The version test of Record.read_from_stream.
VersionMatches(version) == version = VERSION

\* Record.read_from_stream on a stream holding the bytes inp until its end:
\* the result (a record, None or the error raised) and the bytes left
\* unread.  inp.read(n) returns the n next bytes, or fewer at the end;
\* read_exact raises EOFError on fewer.
read_from_stream(inp) ==
    LET temp == Slice(inp, 0, 8) IN
    IF Len(temp) = 0 THEN [result |-> None, rest |-> inp]
    ELSE IF Len(temp) < 8 THEN [result |-> Error("EOFError", ""), rest |-> <<>>]
    ELSE LET version    == temp[1]
             type       == temp[2]
             reqid      == UnpackU16(SubSeq(temp, 3, 4))
             contentlen == UnpackU16(SubSeq(temp, 5, 6))
             padlen     == temp[7]
             content    == Slice(inp, 8, 8 + contentlen)
             padding    == Slice(inp, 8 + contentlen, 8 + contentlen + padlen)
         IN IF ~VersionMatches(version)
            THEN [result |-> Error("ValueError", "Unknown record version"),
                  rest |-> Slice(inp, 8, Len(inp))]
            ELSE IF Len(content) < contentlen
            THEN [result |-> Error("EOFError", ""), rest |-> <<>>]
            ELSE IF Len(padding) < padlen
            THEN [result |-> Error("EOFError", ""), rest |-> <<>>]
            ELSE [result |-> ParseRecord(type, reqid, content, padlen),
                  rest |-> Slice(inp, 8 + contentlen + padlen, Len(inp))]

-----------------------------------------------------------------------------
(* The codec machine: records are constructed, serialized with to_bytes    *)
(* onto a stream and read back with read_from_stream, as in record-test.py *)
(* (test_to_bytes, test_read_from_stream).                                 *)

\* The longest run of records written to one stream.
MaxRecords == 2

\* Text used by the samples: "DELTA", "ALFA", "bravo", and a string with a
\* code point outside ISO-8859-1.
StrDELTA == <<68, 69, 76, 84, 65>>

StrALFA == <<65, 76, 70, 65>>

StrBravo == <<98, 114, 97, 118, 111>>

StrNonLatin1 == <<65, 256>>

SampleRequestIds == {0, 1, 12762, 65535, 65536}

SamplePaddings == {0, 3}

SampleContents == {<<>>, <<30, 37>>}

\* Constructor calls over the sample arguments: records and raised errors.
SampleConstructions ==
    {BeginRequestRecord(1, role, kc, 0) : role \in Roles, kc \in BOOLEAN}
    \cup {AbortRequestRecord(id, pad) : id \in {0, 12762}, pad \in SamplePaddings}
    \cup {EndRequestRecord(17464, a[1], a[2], 0) :
            a \in {<<Wide(0, 0), "REQUEST_COMPLETE">>, <<Wide(7728, 56082), "CANT_MPX_CONN">>,
                   <<Wide(65535, 65535), "OVERLOADED">>, <<Wide(65536, 0), "UNKNOWN_ROLE">>,
                   <<Wide(0, 1), "UNKNOWN_ROLE">>}}
    \cup {RequestSimpleRecord(kind, id, c, 0) :
            kind \in {"Params", "Stdin", "Stdout", "Stderr", "Data"},
            id \in {0, 65535}, c \in SampleContents}
    \cup {GetValuesRecord(names, 0) :
            names \in {<<>>, <<StrDELTA>>, <<StrDELTA, StrALFA>>, <<StrALFA, StrDELTA>>,
                       <<StrNonLatin1>>}}
    \cup {GetValuesResultRecord(pairs, pad) :
            pairs \in {<<>>, <<<<StrDELTA, StrBravo>>, <<StrALFA, <<>>>>>>},
            pad \in SamplePaddings}
    \cup {UnknownTypeRecord(t, 0) : t \in {0, 255, 256}}
    \cup {CustomRecord(t, id, <<240, 227>>, pad) :
            t \in {0, 1, 5, 254}, id \in {0, 1, 65536}, pad \in SamplePaddings}

ConstructedRecords == {r \in SampleConstructions : ~IsError(r)}

CodecInit ==
    /\ stream = <<>>
    /\ sent = <<>>
    /\ received = <<>>
    /\ writer = "open"

\* rc.to_bytes() appended to the stream (Record.send_to_socket); a to_bytes
\* that raises writes nothing.
CodecWrite(r) ==
    /\ writer = "open"
    /\ Len(sent) < MaxRecords
    /\ ~IsError(to_bytes(r))
    /\ stream' = stream \o to_bytes(r).bytes
    /\ sent' = Append(sent, r)
    /\ UNCHANGED <<received, writer>>

\* The writing end is shut: a read at the end of the stream now returns.
CodecClose ==
    /\ writer = "open"
    /\ writer' = "closed"
    /\ UNCHANGED <<stream, sent, received>>

\* Record.read_from_stream(inp); a read of an empty stream blocks until the
\* writing end is shut.
CodecRead ==
    /\ Len(received) <= Len(sent)
    /\ stream # <<>> \/ writer = "closed"
    /\ LET rr == read_from_stream(stream) IN
         /\ received' = Append(received, rr.result)
         /\ stream' = rr.rest
    /\ UNCHANGED <<sent, writer>>


-----------------------------------------------------------------------------
(* src/fastcgi/wsgi.py: ThreadPoolExecutor.  Every statement that touches  *)
(* the pool's fields runs under self._lock and the only blocking call      *)
(* inside the lock is Condition.wait, which releases it: each critical     *)
(* section, up to its end or its wait, is one atomic action.               *)

\* Tasks submitted in one run, which also bounds the threads ever started.
MaxTasks == 3

\* Sentinels the cleaner enqueues in one run.
MaxSentinels == 2

\* The largest minworkers and maxworkers arguments tried.
MaxMinWorkers == 2

MaxMaxWorkers == 2

Threads == 1..MaxTasks

Sentinel == 0

\* ThreadPoolExecutor.__init__(minworkers, maxworkers)
PoolInit ==
    /\ \E minworkers \in 1..MaxMinWorkers, maxworkers \in 1..MaxMaxWorkers :
         /\ min_workers = minworkers
         /\ max_workers = Max(minworkers, maxworkers)
    /\ queue = <<>>
    /\ num_workers = 0
    /\ num_idle_workers = 0
    /\ worker_pc = [w \in Threads |-> "unstarted"]
    /\ worker_item = [w \in Threads |-> Sentinel]
    /\ cleaner_pc = "sleep"
    /\ num_submitted = 0
    /\ num_sentinels = 0
    /\ dequeued = <<>>
    /\ raised = {}

Waiting == {w \in Threads : worker_pc[w] = "waiting"}

\* self._queue_nonempty.notify(): one waiting worker, if any, is woken and
\* will resume once it holds the lock again.  The result is the set of
\* possible next values of worker_pc.
NotifyQueueNonempty(pc) ==
    IF {w \in Threads : pc[w] = "waiting"} = {} THEN {pc}
    ELSE {[pc EXCEPT ![w] = "notified"] : w \in {x \in Threads : pc[x] = "waiting"}}

\* submit's two tests, in order.
SubmitNotifies == num_idle_workers > 0

\* submit starting a worker whenever no worker is idle.
SubmitStartsWorkerNoCeiling == ~SubmitNotifies

SubmitStartsWorker == ~SubmitNotifies /\ num_workers < max_workers

\* submit(task)
Submit ==
    /\ num_submitted < MaxTasks
    /\ num_submitted' = num_submitted + 1
    /\ queue' = Append(queue, num_submitted + 1)
    /\ IF SubmitNotifies
       THEN /\ worker_pc' \in NotifyQueueNonempty(worker_pc)
            /\ UNCHANGED num_workers
       ELSE IF SubmitStartsWorker
       THEN /\ \E w \in Threads :
                 /\ worker_pc[w] = "unstarted"
                 /\ \A x \in Threads : worker_pc[x] = "unstarted" => w <= x
                 /\ worker_pc' = [worker_pc EXCEPT ![w] = "start"]
            /\ num_workers' = num_workers + 1
       ELSE UNCHANGED <<worker_pc, num_workers>>
    /\ UNCHANGED <<min_workers, max_workers, num_idle_workers, worker_item, cleaner_pc,
                   num_sentinels, dequeued, raised>>

\* self._queue.pop(): the last item taken.
Pop(q) == [item |-> q[Len(q)], rest |-> SubSeq(q, 1, Len(q) - 1)]

\* self._queue.popleft(): the item taken and the queue left.
Popleft(q) == [item |-> Head(q), rest |-> Tail(q)]

\* A worker that stays counted idle after it has dequeued an item.
IdleAfterPopKept(idle) == idle

\* The finally block around the wait loop: the worker that leaves it with
\* an item is no longer counted idle.
IdleAfterPop(idle) == idle - 1

\* The worker, holding the lock and counted idle, runs "while len(queue) ==
\* 0: wait()" and then pops: it waits on an empty queue, and otherwise leaves
\* the idle count and goes on with the item (None breaks the loop).
WorkerTakeOrWait(w, idle) ==
    IF Len(queue) = 0
    THEN /\ worker_pc' = [worker_pc EXCEPT ![w] = "waiting"]
         /\ num_idle_workers' = idle
         /\ UNCHANGED <<queue, worker_item, dequeued>>
    ELSE /\ queue' = Popleft(queue).rest
         /\ worker_item' = [worker_item EXCEPT ![w] = Popleft(queue).item]
         /\ num_idle_workers' = IdleAfterPop(idle)
         /\ worker_pc' = [worker_pc EXCEPT
                            ![w] = IF Popleft(queue).item = Sentinel THEN "exiting" ELSE "running"]
         /\ dequeued' = IF Popleft(queue).item = Sentinel THEN dequeued
                        ELSE Append(dequeued, Popleft(queue).item)

\* A worker that never signals the cleaner.
WorkerNeverSignalsCleaner == FALSE

\* The worker signals the cleaner when it becomes idle above the floor.
WorkerSignalsCleaner == num_workers > min_workers

\* _worker, top of the loop: take the lock, count idle, signal the cleaner,
\* then wait or pop.
WorkerEnter(w) ==
    /\ worker_pc[w] = "start"
    /\ cleaner_pc' = IF WorkerSignalsCleaner /\ cleaner_pc = "waiting" THEN "sleep" ELSE cleaner_pc
    /\ WorkerTakeOrWait(w, num_idle_workers + 1)
    /\ UNCHANGED <<min_workers, max_workers, num_workers, num_submitted, num_sentinels, raised>>

\* _worker, a notified worker returns from wait() holding the lock and tests
\* the queue again.
WorkerWake(w) ==
    /\ worker_pc[w] = "notified"
    /\ WorkerTakeOrWait(w, num_idle_workers)
    /\ UNCHANGED <<min_workers, max_workers, num_workers, cleaner_pc, num_submitted,
                   num_sentinels, raised>>

\* Where a worker goes when item() raised: _worker has no except clause, so
\* the exception leaves the loop through the finally block.
AfterTaskRaised == "exiting"

\* _worker, item(): the task returns, or raises.
WorkerRun(w) ==
    /\ worker_pc[w] = "running"
    /\ \/ /\ worker_pc' = [worker_pc EXCEPT ![w] = "start"]
          /\ UNCHANGED raised
       \/ /\ worker_pc' = [worker_pc EXCEPT ![w] = AfterTaskRaised]
          /\ raised' = raised \cup {worker_item[w]}
    /\ UNCHANGED <<min_workers, max_workers, queue, num_workers, num_idle_workers,
                   worker_item, cleaner_pc, num_submitted, num_sentinels, dequeued>>

\* _worker, the finally block: the worker count is decremented and the
\* thread ends.
WorkerExit(w) ==
    /\ worker_pc[w] = "exiting"
    /\ num_workers' = num_workers - 1
    /\ worker_pc' = [worker_pc EXCEPT ![w] = "dead"]
    /\ UNCHANGED <<min_workers, max_workers, queue, num_idle_workers, worker_item,
                   cleaner_pc, num_submitted, num_sentinels, dequeued, raised>>

\* The cleaner's test.
CleanerRetires == (num_workers > min_workers) /\ (num_idle_workers > 0)

\* _cleaner, one turn of the loop after time.sleep(10): enqueue a sentinel and
\* notify, or wait on _cleanable.
CleanerCheck ==
    /\ cleaner_pc = "sleep"
    /\ IF CleanerRetires
       THEN /\ num_sentinels < MaxSentinels
            /\ queue' = Append(queue, Sentinel)
            /\ worker_pc' \in NotifyQueueNonempty(worker_pc)
            /\ num_sentinels' = num_sentinels + 1
            /\ UNCHANGED cleaner_pc
       ELSE /\ cleaner_pc' = "waiting"
            /\ UNCHANGED <<queue, worker_pc, num_sentinels>>
    /\ UNCHANGED <<min_workers, max_workers, num_workers, num_idle_workers, worker_item,
                   num_submitted, dequeued, raised>>


-----------------------------------------------------------------------------
(* Byte strings of the response path.  The application may write chunks    *)
(* longer than a record, so a response byte string is kept as a sequence   *)
(* of runs: a run [src, off, n] is bytes off .. off+n-1 of the source      *)
(* string src.  Adjacent runs that continue one another are merged, so two *)
(* values are equal exactly when they hold the same bytes of the same      *)
(* sources in the same order.                                              *)

Run(src, off, n) == [src |-> src, off |-> off, n |-> n]

\* A whole source string of length n.
Blob(src, n) == IF n = 0 THEN <<>> ELSE <<Run(src, 0, n)>>

RECURSIVE DataLen(_)
DataLen(d) == IF d = <<>> THEN 0 ELSE d[1].n + DataLen(Tail(d))

\* a + b
DataConcat(a, b) ==
    IF a = <<>> THEN b
    ELSE IF b = <<>> THEN a
    ELSE LET x == a[Len(a)]
             y == b[1]
         IN IF x.src = y.src /\ x.off + x.n = y.off
            THEN SubSeq(a, 1, Len(a) - 1) \o <<Run(x.src, x.off, x.n + y.n)>> \o Tail(b)
            ELSE a \o b

RECURSIVE DataDrop(_, _)
DataDrop(d, k) ==
    IF k <= 0 \/ d = <<>> THEN d
    ELSE IF k >= d[1].n THEN DataDrop(Tail(d), k - d[1].n)
    ELSE <<Run(d[1].src, d[1].off + k, d[1].n - k)>> \o Tail(d)

RECURSIVE DataTake(_, _)
DataTake(d, k) ==
    IF k <= 0 \/ d = <<>> THEN <<>>
    ELSE IF k >= d[1].n THEN <<d[1]>> \o DataTake(Tail(d), k - d[1].n)
    ELSE <<Run(d[1].src, d[1].off, k)>>

\* b[i:j] for 0 <= i <= j
DataSlice(d, i, j) == DataTake(DataDrop(d, i), j - i)

RECURSIVE DataJoin(_, _)
\* sep.join(parts)
DataJoin(sep, parts) ==
    IF parts = <<>> THEN <<>>
    ELSE IF Len(parts) = 1 THEN parts[1]
    ELSE DataConcat(DataConcat(parts[1], sep), DataJoin(sep, Tail(parts)))

\* String literals of the gateways, as sources of their own.
LitHTTP == Blob("HTTP/1.0 ", 9)

LitColon == Blob(": ", 2)

LitCRLF == Blob("\r\n", 2)

\* Source strings holding a code point above 255.
NonLatin1Sources == {"value-nonlatin1"}

\* str.encode("ISO-8859-1") on the response path: a byte per code point,
\* UnicodeEncodeError on a code point above 255.
EncodeLatin1Data(d) ==
    IF \E k \in 1..Len(d) : d[k].src \in NonLatin1Sources
    THEN Error("UnicodeEncodeError", "ISO-8859-1")
    ELSE [kind |-> "Data", data |-> d]

\* str.encode("UTF-8") on the response path: a byte per ASCII code point; the
\* code points of the non-Latin-1 source take two bytes each.
EncodeUtf8Data(d) ==
    [kind |-> "Data",
     data |-> [k \in 1..Len(d) |->
                 IF d[k].src \in NonLatin1Sources
                 THEN Run("utf8:" \o d[k].src, 2 * d[k].off, 2 * d[k].n)
                 ELSE d[k]]]

-----------------------------------------------------------------------------
(* src/fastcgi/wsgi.py and src/wsgi.py: _Request.  The operators below     *)
(* take and return a handler state S = [req, out, pipe, exc]: the request, *)
(* the records sent, the sends the peer still accepts, and the exception   *)
(* in flight (NoExc while the code runs on).                               *)

NoExc == [kind |-> "NoExc"]

NoReq == [kind |-> "NoReq"]

Unlimited == -1

\* _Request._RECORD_MAX_DATA_LENGTH = 2**16 - 1
RECORD_MAX_DATA_LENGTH == 65535

\* _Request.__init__ of src/fastcgi/wsgi.py
PooledRequest(rc) ==
    [kind |-> "Request", id |-> rc.request_id, keep_conn |-> rc.keep_conn,
     params |-> <<>>, stdin |-> <<>>, headers |-> <<>>, headers_written |-> FALSE]

\* _Request.__init__ of src/wsgi.py
SingleRequest(rc) ==
    [kind |-> "Request", id |-> rc.request_id, keep_conn |-> rc.keep_conn,
     params |-> <<>>, stdin |-> <<>>, stdout |-> <<>>, stdout_length |-> 0]

\* StdoutRecord(reqid, content) on a response byte string, padlen defaulted:
\* the checks of StdoutRecord.__init__, Record.__init__ and
\* _SimpleRecord.__init__.
OutStdoutRecord(reqid, content) ==
    IF reqid = 0 THEN Error("ValueError", "Invalid request ID")
    ELSE IF IsError(RecordInitError(reqid, 0)) THEN RecordInitError(reqid, 0)
    ELSE IF ~BitWidthOk(DataLen(content), 16) THEN Error("ValueError", "Content too long")
    ELSE [kind |-> "Stdout", request_id |-> reqid, padding_length |-> 0, content |-> content]

\* _Request._send(rc) -> rc.send_to_socket: sendall raises BrokenPipeError
\* once the peer has closed; a record whose construction raised is not sent.
Send(S, rc) ==
    IF S.exc # NoExc THEN S
    ELSE IF IsError(rc) THEN [S EXCEPT !.exc = rc]
    ELSE IF S.pipe = 0 THEN [S EXCEPT !.exc = Error("BrokenPipeError", "")]
    ELSE [S EXCEPT !.out = Append(@, rc),
                   !.pipe = IF @ = Unlimited THEN Unlimited ELSE @ - 1]

\* A record's content taken as all that is left of b.
PooledChunkLengthUnbounded(len, off) == len - off

\* The length of the next record's content in src/fastcgi/wsgi.py's
\* _write_stdout: n = min(len(b) - off, _RECORD_MAX_DATA_LENGTH)
PooledChunkLength(len, off) == Min(len - off, RECORD_MAX_DATA_LENGTH)

\* A record's content taken from the start of b whatever the offset.
PooledChunkIgnoresOffset(b, off, n) == DataTake(b, n)

\* b if (n == len(b)) else b[off : off + n]
PooledChunk(b, off, n) == IF n = DataLen(b) THEN b ELSE DataSlice(b, off, off + n)

RECURSIVE PooledWriteStdoutFrom(_, _, _)
RECURSIVE PooledWriteHeaders(_)

\* src/fastcgi/wsgi.py _write_stdout, the loop from offset off.
PooledWriteStdoutFrom(S, b, off) ==
    IF S.exc # NoExc \/ off >= DataLen(b) THEN S
    ELSE LET S1 == PooledWriteHeaders(S) IN
         IF S1.exc # NoExc THEN S1
         ELSE LET n  == PooledChunkLength(DataLen(b), off)
                  S2 == Send(S1, OutStdoutRecord(S1.req.id, PooledChunk(b, off, n)))
              IN PooledWriteStdoutFrom(S2, b, off + n)

\* src/fastcgi/wsgi.py _write_headers
PooledWriteHeaders(S) ==
    IF S.req.headers_written THEN S
    ELSE IF Len(S.req.headers) = 0 THEN [S EXCEPT !.exc = Error("ValueError", "Headers not set")]
    ELSE LET S1  == [S EXCEPT !.req.headers_written = TRUE]
             enc == EncodeLatin1Data(DataJoin(LitCRLF, S.req.headers))
         IN IF IsError(enc) THEN [S1 EXCEPT !.exc = enc]
            ELSE LET S2 == PooledWriteStdoutFrom(S1, enc.data, 0) IN
                 IF S2.exc # NoExc THEN S2 ELSE [S2 EXCEPT !.req.headers = <<>>]

PooledWriteStdout(S, b) == PooledWriteStdoutFrom(S, b, 0)

\* The header list both gateways build in start_response:
\* ["HTTP/1.0 " + status] + [": ".join(kv) for kv in respheaders] + ["", ""]
HeaderLines(status, respheaders) ==
    <<DataConcat(LitHTTP, status)>>
    \o [k \in 1..Len(respheaders) |-> DataJoin(LitColon, respheaders[k])]
    \o <<<<>>, <<>>>>

\* A _start_response that replaces buffered headers whether or not excinfo
\* is given.
PooledStartResponseAlwaysReplaces(S, status, respheaders, excinfo) ==
    IF S.req.headers_written THEN [S EXCEPT !.exc = Error("ValueError", "Headers already written")]
    ELSE [S EXCEPT !.req.headers = HeaderLines(status, respheaders)]

\* src/fastcgi/wsgi.py _start_response
PooledStartResponse(S, status, respheaders, excinfo) ==
    IF S.req.headers_written THEN [S EXCEPT !.exc = Error("ValueError", "Headers already written")]
    ELSE IF Len(S.req.headers) > 0 /\ ~excinfo
    THEN [S EXCEPT !.exc = Error("ValueError", "Headers already set")]
    ELSE [S EXCEPT !.req.headers = HeaderLines(status, respheaders)]

\* A tail of _process that sends the EndRequest record without the empty
\* Stdout record.
PooledFinishNoStreamEnd(S) ==
    LET S1 == PooledWriteHeaders(S)
    IN Send(S1, EndRequestRecord(S1.req.id, Wide(0, 0), "REQUEST_COMPLETE", 0))

\* A tail of _process that sends the empty Stdout record and the EndRequest
\* record without calling _write_headers.
PooledFinishNoHeaderFlush(S) ==
    LET S2 == Send(S, OutStdoutRecord(S.req.id, <<>>))
    IN Send(S2, EndRequestRecord(S2.req.id, Wide(0, 0), "REQUEST_COMPLETE", 0))

\* The tail of src/fastcgi/wsgi.py _process once the result is exhausted:
\* _write_headers, the empty Stdout record, the EndRequest record.
PooledFinish(S) ==
    LET S1 == PooledWriteHeaders(S)
        S2 == Send(S1, OutStdoutRecord(S1.req.id, <<>>))
    IN Send(S2, EndRequestRecord(S2.req.id, Wide(0, 0), "REQUEST_COMPLETE", 0))

RECURSIVE SingleWriteStdoutFrom(_, _, _)
\* src/wsgi.py _write_stdout, the loop from offset off.
SingleWriteStdoutFrom(S, b, off) ==
    IF S.exc # NoExc \/ off >= DataLen(b) THEN S
    ELSE IF S.req.stdout_length = 0 /\ DataLen(b) - off >= RECORD_MAX_DATA_LENGTH
    THEN LET n == RECORD_MAX_DATA_LENGTH IN
         SingleWriteStdoutFrom(Send(S, OutStdoutRecord(S.req.id, DataSlice(b, off, off + n))),
                               b, off + n)
    ELSE LET n  == Min(DataLen(b) - off, RECORD_MAX_DATA_LENGTH - S.req.stdout_length)
             S1 == [S EXCEPT !.req.stdout = DataConcat(@, DataSlice(b, off, off + n)),
                             !.req.stdout_length = @ + n]
         IN IF S1.req.stdout_length = RECORD_MAX_DATA_LENGTH
            THEN LET S2 == Send(S1, OutStdoutRecord(S1.req.id, S1.req.stdout)) IN
                 IF S2.exc # NoExc THEN S2
                 ELSE SingleWriteStdoutFrom(
                          [S2 EXCEPT !.req.stdout = <<>>, !.req.stdout_length = 0], b, off + n)
            ELSE SingleWriteStdoutFrom(S1, b, off + n)

SingleWriteStdout(S, b) == SingleWriteStdoutFrom(S, b, 0)

\* "\r\n".join(headers).encode("UTF-8") in start_response of src/wsgi.py
SingleHeaderBytes(status, respheaders) ==
    EncodeUtf8Data(DataJoin(LitCRLF, HeaderLines(status, respheaders))).data

\* src/wsgi.py start_response (the closure in _process)
SingleStartResponse(S, status, respheaders, excinfo) ==
    SingleWriteStdout(S, SingleHeaderBytes(status, respheaders))

\* The tail of src/wsgi.py _process once the result is exhausted.
SingleFinish(S) ==
    LET S1 == IF S.req.stdout_length > 0
              THEN Send(S, OutStdoutRecord(S.req.id, S.req.stdout))
              ELSE S
        S2 == Send(S1, OutStdoutRecord(S.req.id, <<>>))
    IN Send(S2, EndRequestRecord(S.req.id, Wide(0, 0), "REQUEST_COMPLETE", 0))

-----------------------------------------------------------------------------
(* The connection machine: one accepted client socket handled by           *)
(* Server._make_task.run (src/fastcgi/wsgi.py) or by                       *)
(* WsgiServer._handle_client_socket (src/wsgi.py).  The peer sends frames, *)
(* the application is the environment of _process: it calls                *)
(* start_response and write, returns an iterable, yields chunks, raises or *)
(* ends.  An exception raised inside a callback propagates through the     *)
(* application.  The codec is src/fastcgi.py for both gateways.            *)

\* Records read on one connection.
MaxReads == 6

\* start_response, write and yield steps of the application on one connection.
MaxAppOps == 3

\* The most records the peer accepts before it closes, when it closes.
MaxPipe == 1

\* Records read plus application steps on one connection: a long exchange of
\* records goes with a short response and the other way round.
MaxEvents == 7

StrREQUEST_SCHEME == <<82, 69, 81, 85, 69, 83, 84, 95, 83, 67, 72, 69, 77, 69>>

StrHttps == <<104, 116, 116, 112, 115>>

StrHttp == <<104, 116, 116, 112>>

StrWsgiUrlScheme == <<119, 115, 103, 105, 46, 117, 114, 108, 95, 115, 99, 104, 101, 109, 101>>

\* The name-value bytes of REQUEST_SCHEME=https, sent whole or cut in two.
SchemeParams == dict_to_name_values(<<<<StrREQUEST_SCHEME, StrHttps>>>>).bytes

\* The records a client sends in the samples.
ClientRecords ==
    {BeginRequestRecord(1, "RESPONDER", TRUE, 0), BeginRequestRecord(1, "RESPONDER", FALSE, 0),
     BeginRequestRecord(2, "RESPONDER", TRUE, 0)}
    \cup {ParamsRecord(1, c, 0) :
            c \in {<<>>, SchemeParams, SubSeq(SchemeParams, 1, 10),
                   SubSeq(SchemeParams, 11, Len(SchemeParams))}}
    \cup {StdinRecord(1, <<>>, 0), StdinRecord(1, <<104, 105>>, 0), StdinRecord(2, <<>>, 0)}
    \cup {AbortRequestRecord(1, 0), GetValuesRecord(<<>>, 0)}
    \cup {GetValuesResultRecord(<<>>, 0), UnknownTypeRecord(200, 0), CustomRecord(200, 0, <<>>, 0)}
    \cup {EndRequestRecord(1, Wide(0, 0), "REQUEST_COMPLETE", 0), StdoutRecord(1, <<>>, 0),
          StderrRecord(1, <<>>, 0), DataRecord(1, <<>>, 0), CustomRecord(200, 1, <<>>, 0)}

\* Input that ends inside a record: in the header, in the content, in the
\* padding.
TruncatedFrames ==
    {<<1>>, <<1, 5, 0>>, <<1, 5, 0, 1, 0, 3, 0, 0, 30>>, <<1, 5, 0, 1, 0, 1, 2, 0, 30, 0>>}

\* What the peer may make the next read see: a whole frame, the end of the
\* stream (no byte), a frame cut short, a frame of another version.
ClientFrames ==
    {to_bytes(r).bytes : r \in ClientRecords}
    \cup {<<>>, <<2, 5, 0, 1, 0, 0, 0, 0>>}
    \cup TruncatedFrames

\* Arguments the application passes to start_response: the status "200 OK"
\* and a header list (one short header, one header longer than a record, one
\* header with a value outside ISO-8859-1).
SampleStatus == Blob("200 OK", 6)

SampleHeaderLists ==
    {<<<<Blob("Content-Type", 12), Blob("text/plain", 10)>>>>,
     <<<<Blob("X-Long", 6), Blob("value-long", 70000)>>>>,
     <<<<Blob("X-Name", 6), Blob("value-nonlatin1", 3)>>>>}

NoArgs == [kind |-> "NoArgs"]

\* Lengths of the byte strings the application writes or yields.
ChunkLengths == {0, 65535, 65536}

\* The k-th byte string the application hands over is a source of its own.
Chunk(k, len) == Blob("chunk" \o ToString(k), len)

NoEnviron == [kind |-> "NoEnviron"]

ConnInit ==
    /\ variant \in {"pooled", "single"}
    /\ pipe_left \in {Unlimited} \cup (0..MaxPipe)
    /\ conn_pc = "read"
    /\ conn_exc = NoExc
    /\ sock_open = TRUE
    /\ sock_out = <<>>
    /\ req = NoReq
    /\ num_reads = 0
    /\ last_read = None
    /\ req_marks = <<>>
    /\ completed = {}
    /\ app_ops = 0
    /\ app_calls = 0
    /\ body_given = <<>>
    /\ stdout_writes = <<>>
    /\ accepted = NoArgs
    /\ has_close = FALSE
    /\ close_calls = 0
    /\ environ = NoEnviron

\* The exception that leaves the handler: run() of src/fastcgi/wsgi.py
\* swallows BrokenPipeError ("except BrokenPipeError: pass"),
\* _handle_client_socket of src/wsgi.py has no except clause.
HandlerOutcome(exc) ==
    IF variant = "pooled" /\ exc.exc = "BrokenPipeError" THEN NoExc ELSE exc

\* The handler is left: "with sock" / "finally: sock.close()" close the
\* socket, whether by break or by an exception.
Leave(exc) ==
    /\ conn_pc' = "done"
    /\ sock_open' = FALSE
    /\ conn_exc' = IF exc = NoExc THEN NoExc ELSE HandlerOutcome(exc)

\* WsgiServer.run of src/wsgi.py once _handle_client_socket has ended with
\* exc: "try: while True: accept(); _handle_client_socket(sock)" has no
\* except clause, so an exception leaves the loop and "finally:
\* self._server_socket.close()" closes the listening socket; otherwise the
\* loop goes back to accept().
RunAfterHandler(exc) ==
    IF exc = NoExc
    THEN [loop |-> "accepting", server_socket_open |-> TRUE]
    ELSE [loop |-> "left", server_socket_open |-> FALSE]

\* d[key], or KeyError
DictGet(d, key) ==
    IF key \in DictKeys(d)
    THEN [kind |-> "Value", value |-> (CHOOSE item \in DictItems(d) : item[1] = key)[2]]
    ELSE Error("KeyError", "REQUEST_SCHEME")

\* A wsgi.input left at the end of what was written to it.
WsgiInputNotRewound(r) == <<>>

\* What wsgi.input reads: all of the stdin buffer, after
\* "self._stdin.seek(0)" (src/wsgi.py: a new BytesIO of the buffer's value).
WsgiInput(r) == r.stdin

\* The head of _process up to the application call: the environ, or the
\* error raised while building it.  src/fastcgi/wsgi.py copies
\* REQUEST_SCHEME into wsgi.url_scheme; src/wsgi.py sets "http" before the
\* update with the params.
BuildEnviron(r) ==
    LET pairs == name_values_to_dict(r.params) IN
    IF IsError(pairs) THEN pairs
    ELSE IF variant = "pooled"
    THEN LET scheme == DictGet(pairs.items, StrREQUEST_SCHEME) IN
         IF IsError(scheme) THEN scheme
         ELSE [kind |-> "Environ", params |-> pairs.items, url_scheme |-> scheme.value,
               input |-> WsgiInput(r)]
    ELSE [kind |-> "Environ", params |-> pairs.items,
          url_scheme |-> IF StrWsgiUrlScheme \in DictKeys(pairs.items)
                         THEN DictGet(pairs.items, StrWsgiUrlScheme).value ELSE StrHttp,
          input |-> WsgiInput(r)]

\* A record loop that accepts every BeginRequest.
BeginNeverRejected(r) == FALSE

\* "if req is not None: raise ValueError("Concurrent request")"
BeginRejected(r) == r # NoReq

\* Whether the record loop goes on after _process: "if not keepconn: break"
\* and "if not req.handle_record(rc): break".
LoopContinues(keepconn) == keepconn

\* The loop's req variable after _process returned: src/fastcgi/wsgi.py
\* assigns "req = None"; the loop of src/wsgi.py has no such assignment and
\* keeps the processed request.
ReqAfterProcess(r) == IF variant = "pooled" THEN NoReq ELSE r

\* A loop without the test of request id 0.
IsManagementNever(rc) == FALSE

\* "elif rc.get_request_id() == 0"
IsManagement(rc) == rc.request_id = 0

\* A loop that leaves without error on a record it does not handle.
UnknownRequestRecordIgnored(rc) == NoExc

\* The final else of the if/elif chain (in src/wsgi.py, of handle_record):
\* raise ValueError("Unknown request record type")
UnknownRequestRecord(rc) == Error("ValueError", "Unknown request record type")

\* A loop that takes every end of input as a clean close.
EndOfInputAlwaysClean(r) == NoExc

\* "if rc is None: if req is not None: raise EOFError()" and the break.
EndOfInput(r) == IF r # NoReq THEN Error("EOFError", "") ELSE NoExc

\* One turn of the record loop: read_from_socket and the if/elif chain, up
\* to the application call when the record ends the request's input.
ConnRead(frame) ==
    /\ conn_pc = "read"
    /\ num_reads < MaxReads
    /\ num_reads + app_ops < MaxEvents
    /\ num_reads' = num_reads + 1
    /\ LET rc == read_from_stream(frame).result IN
       /\ last_read' = rc
       /\ IF IsError(rc)
          THEN /\ Leave(rc)
               /\ UNCHANGED <<req, req_marks, app_calls, body_given, stdout_writes, accepted,
                              has_close, close_calls, environ>>
          ELSE IF rc = None
          THEN /\ Leave(EndOfInput(req))
               /\ UNCHANGED <<req, req_marks, app_calls, body_given, stdout_writes, accepted,
                              has_close, close_calls, environ>>
          ELSE IF IsManagement(rc)
          THEN /\ Leave(Error("ValueError", "Unknown management record type"))
               /\ UNCHANGED <<req, req_marks, app_calls, body_given, stdout_writes, accepted,
                              has_close, close_calls, environ>>
          ELSE IF rc.kind = "BeginRequest"
          THEN IF BeginRejected(req)
               THEN /\ Leave(Error("ValueError", "Concurrent request"))
                    /\ UNCHANGED <<req, req_marks, app_calls, body_given, stdout_writes,
                                   accepted, has_close, close_calls, environ>>
               ELSE /\ req' = IF variant = "pooled" THEN PooledRequest(rc) ELSE SingleRequest(rc)
                    /\ req_marks' = Append(req_marks, [id |-> rc.request_id, at |-> Len(sock_out)])
                    /\ body_given' = <<>>
                    /\ stdout_writes' = <<>>
                    /\ accepted' = NoArgs
                    /\ has_close' = FALSE
                    /\ close_calls' = 0
                    /\ UNCHANGED <<conn_pc, conn_exc, sock_open, app_calls, environ>>
          ELSE IF req = NoReq \/ rc.request_id # req.id
          THEN /\ Leave(Error("ValueError", "Missing request"))
               /\ UNCHANGED <<req, req_marks, app_calls, body_given, stdout_writes, accepted,
                              has_close, close_calls, environ>>
          ELSE IF rc.kind = "Params"
          THEN /\ req' = [req EXCEPT !.params = @ \o rc.content]
               /\ UNCHANGED <<conn_pc, conn_exc, sock_open, req_marks, app_calls, body_given, stdout_writes,
                              accepted, has_close, close_calls, environ>>
          ELSE IF rc.kind = "Stdin"
          THEN /\ req' = [req EXCEPT !.stdin = @ \o rc.content]
               /\ IF Len(rc.content) = 0
                  THEN LET env == BuildEnviron(req') IN
                       IF IsError(env)
                       THEN /\ Leave(env)
                            /\ UNCHANGED <<app_calls, environ, has_close, close_calls>>
                       ELSE /\ conn_pc' = "call"
                            /\ app_calls' = app_calls + 1
                            /\ environ' = env
                            /\ has_close' = FALSE      \* no result yet
                            /\ close_calls' = 0
                            /\ UNCHANGED <<conn_exc, sock_open>>
                  ELSE UNCHANGED <<conn_pc, conn_exc, sock_open, app_calls, environ, has_close,
                                   close_calls>>
               /\ UNCHANGED <<req_marks, body_given, stdout_writes, accepted>>
          ELSE /\ Leave(UnknownRequestRecord(rc))
               /\ UNCHANGED <<req, req_marks, app_calls, body_given, stdout_writes, accepted,
                              has_close, close_calls, environ>>
    /\ UNCHANGED <<variant, pipe_left, sock_out, completed, app_ops>>

\* An else clause in place of the finally clause: close() only when the try
\* block ended without an exception.
CloseUnlessRaised(pc, closeable, exc) ==
    IF pc = "iter" /\ closeable /\ exc = NoExc THEN 1 ELSE 0

\* The finally clause of _process in both gateways, "if hasattr(result,
\* "close"): result.close()": the number of close() calls made when control
\* leaves _process at pc with or without the exception exc.  The try block
\* begins after the application call has returned its result.
FinallyClose(pc, closeable, exc) ==
    IF pc = "iter" /\ closeable THEN 1 ELSE 0

\* The handler state the request operators work on.
CurrentS == [req |-> req, out |-> sock_out, pipe |-> pipe_left, exc |-> NoExc]

\* After a callback or a yield left the handler state S: the code runs on
\* in the application, or the exception propagates out of _process (through
\* its finally block, which calls result.close(), once the result exists)
\* and out of the record loop.
AfterCallback(S) ==
    /\ req' = S.req
    /\ sock_out' = S.out
    /\ pipe_left' = S.pipe
    /\ IF S.exc = NoExc
       THEN UNCHANGED <<conn_pc, conn_exc, sock_open, close_calls>>
       ELSE /\ Leave(S.exc)
            /\ close_calls' = close_calls + FinallyClose(conn_pc, has_close, S.exc)

\* The application calls start_response(status, respheaders[, excinfo]).
AppStartResponse(respheaders, excinfo) ==
    /\ conn_pc \in {"call", "iter"}
    /\ app_ops < MaxAppOps
    /\ num_reads + app_ops < MaxEvents
    /\ app_ops' = app_ops + 1
    /\ LET S == IF variant = "pooled"
                THEN PooledStartResponse(CurrentS, SampleStatus, respheaders, excinfo)
                ELSE SingleStartResponse(CurrentS, SampleStatus, respheaders, excinfo)
       IN /\ AfterCallback(S)
          /\ accepted' = IF S.exc = NoExc
                         THEN [kind |-> "Args", status |-> SampleStatus, headers |-> respheaders]
                         ELSE accepted
    /\ stdout_writes' = IF variant = "single"
                        THEN Append(stdout_writes, SingleHeaderBytes(SampleStatus, respheaders))
                        ELSE stdout_writes
    /\ UNCHANGED <<variant, num_reads, last_read, req_marks, completed, app_calls, body_given,
                   has_close, environ>>

\* The application calls the write callable start_response returned:
\* _write_stdout in src/fastcgi/wsgi.py, a function that raises
\* NotImplementedError in src/wsgi.py.
AppWrite(len) ==
    /\ conn_pc \in {"call", "iter"}
    /\ accepted # NoArgs
    /\ app_ops < MaxAppOps
    /\ num_reads + app_ops < MaxEvents
    /\ app_ops' = app_ops + 1
    /\ body_given' = Append(body_given, Chunk(app_ops + 1, len))
    /\ UNCHANGED stdout_writes
    /\ AfterCallback(IF variant = "pooled"
                     THEN PooledWriteStdout(CurrentS, Chunk(app_ops + 1, len))
                     ELSE [CurrentS EXCEPT !.exc = Error("NotImplementedError", "")])
    /\ UNCHANGED <<variant, num_reads, last_read, req_marks, completed, app_calls, accepted,
                   has_close, environ>>

\* The application call returns its result, an iterable with or without a
\* close method.
AppReturn(closeable) ==
    /\ conn_pc = "call"
    /\ conn_pc' = "iter"
    /\ has_close' = closeable
    /\ UNCHANGED <<variant, conn_exc, sock_open, pipe_left, sock_out, req, num_reads, last_read,
                   req_marks, completed, app_ops, app_calls, body_given, stdout_writes, accepted, close_calls,
                   environ>>

\* "for b in result: self._write_stdout(b)", one chunk.
AppYield(len) ==
    /\ conn_pc = "iter"
    /\ app_ops < MaxAppOps
    /\ num_reads + app_ops < MaxEvents
    /\ app_ops' = app_ops + 1
    /\ body_given' = Append(body_given, Chunk(app_ops + 1, len))
    /\ stdout_writes' = IF variant = "single"
                        THEN Append(stdout_writes, Chunk(app_ops + 1, len))
                        ELSE stdout_writes
    /\ AfterCallback(IF variant = "pooled"
                     THEN PooledWriteStdout(CurrentS, Chunk(app_ops + 1, len))
                     ELSE SingleWriteStdout(CurrentS, Chunk(app_ops + 1, len)))
    /\ UNCHANGED <<variant, num_reads, last_read, req_marks, completed, app_calls, accepted,
                   has_close, environ>>

\* The application raises, in its call or while its result is iterated.
AppRaise ==
    /\ conn_pc \in {"call", "iter"}
    /\ AfterCallback([CurrentS EXCEPT !.exc = Error("ApplicationError", "")])
    /\ UNCHANGED <<variant, num_reads, last_read, req_marks, completed, app_ops, app_calls,
                   body_given, stdout_writes, accepted, has_close, environ>>

\* The result is exhausted: the tail of _process, its finally block, and the
\* record loop's "req = None" and break-or-continue.
AppFinish ==
    /\ conn_pc = "iter"
    /\ LET S == IF variant = "pooled" THEN PooledFinish(CurrentS) ELSE SingleFinish(CurrentS) IN
       /\ sock_out' = S.out
       /\ pipe_left' = S.pipe
       /\ close_calls' = close_calls + FinallyClose(conn_pc, has_close, S.exc)
       /\ IF S.exc # NoExc
          THEN /\ Leave(S.exc)
               /\ req' = S.req
               /\ UNCHANGED completed
          ELSE /\ completed' = completed \cup {Len(req_marks)}
               /\ req' = ReqAfterProcess(S.req)
               /\ IF LoopContinues(S.req.keep_conn)
                  THEN /\ conn_pc' = "read"
                       /\ UNCHANGED <<conn_exc, sock_open>>
                  ELSE Leave(NoExc)
    /\ UNCHANGED <<variant, num_reads, last_read, req_marks, app_ops, app_calls, body_given, stdout_writes,
                   accepted, has_close, environ>>

-----------------------------------------------------------------------------
(* The call machine: one call of a function of src/fastcgi.py.  The        *)
(* initial state holds the call, drawn from the samples; the action of the *)
(* function called computes what it returns or raises.                     *)

\* The longest sample string (it needs more than one length byte).
MaxStringLen == 300

\* The most items in a sample mapping.
MaxPairs == 2

NoCall == [fn |-> "none"]

Pending == [kind |-> "Pending"]

\* n times the code point c
Repeat(c, n) == [k \in 1..n |-> c]

\* Names: the empty string, one character, the lengths on both sides of the
\* one-byte limit, a long one, the highest ISO-8859-1 code point, and a
\* string outside ISO-8859-1.
SampleNames ==
    {<<>>, <<65>>, Repeat(66, 127), Repeat(67, 128), Repeat(68, MaxStringLen), <<255, 0>>,
     StrNonLatin1}

SampleValues == {<<>>, Repeat(69, 127), Repeat(70, 128), StrNonLatin1}

\* Mappings of up to n items, as item sequences with distinct names.
RECURSIVE MappingsUpTo(_)
MappingsUpTo(n) ==
    IF n = 0 THEN {<<>>}
    ELSE LET shorter == MappingsUpTo(n - 1) IN
         shorter \cup {Append(m, <<k, v>>) :
                          m \in {x \in shorter : Len(x) = n - 1},
                          k \in SampleNames, v \in SampleValues}

SampleMappings ==
    {m \in MappingsUpTo(MaxPairs) : \A i, j \in 1..Len(m) : i # j => m[i][1] # m[j][1]}

\* Encoded name-value bytes written by hand: lengths below 128 in the
\* four-byte form, a name twice, and malformed tails.
SampleNameValueBytes ==
    {<<128, 0, 0, 1, 128, 0, 0, 0, 65>>,
     <<128, 0, 0, 1, 2, 65, 66, 67>>,
     <<1, 128, 0, 0, 2, 65, 66, 67>>,
     <<1, 1, 65, 66, 1, 1, 65, 67>>,
     <<1, 1, 65>>,
     <<1>>,
     <<128, 0, 1>>,
     <<128, 0, 0, 200, 0, 65>>}

SampleCallsNameValues ==
    {[fn |-> "dict_to_name_values", d |-> m] : m \in SampleMappings}
    \cup {[fn |-> "name_values_to_dict", b |-> b] : b \in SampleNameValueBytes}

\* dict_to_name_values(d), and name_values_to_dict of what it returned.
CallDictToNameValues ==
    /\ call.fn = "dict_to_name_values"
    /\ outcome = Pending
    /\ outcome' = LET encoded == dict_to_name_values(call.d) IN
                  [kind |-> "RoundTrip", encoded |-> encoded,
                   decoded |-> IF IsError(encoded) THEN encoded
                               ELSE name_values_to_dict(encoded.bytes)]
    /\ UNCHANGED call

\* name_values_to_dict(b)
CallNameValuesToDict ==
    /\ call.fn = "name_values_to_dict"
    /\ outcome = Pending
    /\ outcome' = name_values_to_dict(call.b)
    /\ UNCHANGED call

\* The record classes by the way their constructor takes the request id.
SimpleKinds == {"Params", "Stdin", "Stdout", "Stderr", "Data"}

RequestKinds == {"BeginRequest", "AbortRequest", "EndRequest"} \cup SimpleKinds

ManagementKinds == {"GetValues", "GetValuesResult", "UnknownType"}

\* A bytes or str argument of a constructor call, written as Python writes
\* it: a character times a length.
Fill(c, n) == [fill |-> c, n |-> n]

Filled(f) == Repeat(f.fill, f.n)

\* cls(**args)
Construct(cls, a) ==
    CASE cls = "BeginRequest"    -> BeginRequestRecord(a.reqid, a.role, a.keepconn, a.padlen)
      [] cls = "AbortRequest"    -> AbortRequestRecord(a.reqid, a.padlen)
      [] cls = "EndRequest"      -> EndRequestRecord(a.reqid, a.appstat, a.protostat, a.padlen)
      [] cls \in SimpleKinds     -> RequestSimpleRecord(cls, a.reqid, Filled(a.content), a.padlen)
      [] cls = "Custom"          -> CustomRecord(a.type, a.reqid, Filled(a.content), a.padlen)
      [] cls = "GetValues"       ->
           GetValuesRecord([k \in 1..Len(a.names) |-> Filled(a.names[k])], a.padlen)
      [] cls = "GetValuesResult" ->
           GetValuesResultRecord([k \in 1..Len(a.pairs) |->
                                     <<Filled(a.pairs[k][1]), Filled(a.pairs[k][2])>>], a.padlen)
      [] cls = "UnknownType"     -> UnknownTypeRecord(a.unknowntype, a.padlen)

\* What the caller sees of a constructor call: the error raised, or the
\* record's class, get_request_id(), get_padding_length(), and of its
\* to_bytes() the error raised or the length of the bytes.
Observed(r) ==
    IF IsError(r) THEN r
    ELSE [kind |-> r.kind, request_id |-> r.request_id, padding_length |-> r.padding_length,
          to_bytes |-> LET b == to_bytes(r) IN
                       IF IsError(b) THEN b ELSE [kind |-> "Bytes", len |-> Len(b.bytes)]]

ConstructCall(cls, a) == [fn |-> "construct", cls |-> cls, args |-> a]

\* Arguments on both sides of each field's range.
BoundaryRequestIds == {-1, 0, 1, 65535, 65536}

BoundaryPaddings == {-1, 0, 255, 256}

BoundaryTypes == {-1, 0, 5, 255, 256}

BoundaryStatuses == {Wide(-1, 65535), Wide(0, 0), Wide(65535, 65535), Wide(65536, 0)}

ShortContents == {Fill(0, 0), Fill(30, 2)}

LongContents == {Fill(0, 65535), Fill(0, 65536)}

SampleCallsConstruct ==
    {ConstructCall(cls, [reqid |-> id, content |-> c, padlen |-> pad]) :
        cls \in SimpleKinds, id \in BoundaryRequestIds, c \in ShortContents,
        pad \in BoundaryPaddings}
    \cup {ConstructCall(cls, [reqid |-> 1, content |-> c, padlen |-> 255]) :
            cls \in SimpleKinds, c \in LongContents}
    \cup {ConstructCall("Custom", [type |-> t, reqid |-> id, content |-> Fill(0, 0), padlen |-> pad]) :
            t \in BoundaryTypes, id \in BoundaryRequestIds, pad \in BoundaryPaddings}
    \cup {ConstructCall("Custom", [type |-> 255, reqid |-> 65535, content |-> c, padlen |-> 255]) :
            c \in LongContents}
    \cup {ConstructCall("BeginRequest",
                        [reqid |-> id, role |-> "RESPONDER", keepconn |-> kc, padlen |-> pad]) :
            id \in BoundaryRequestIds, kc \in BOOLEAN, pad \in BoundaryPaddings}
    \cup {ConstructCall("AbortRequest", [reqid |-> id, padlen |-> pad]) :
            id \in BoundaryRequestIds, pad \in BoundaryPaddings}
    \cup {ConstructCall("EndRequest", [reqid |-> id, appstat |-> st,
                                       protostat |-> "REQUEST_COMPLETE", padlen |-> pad]) :
            id \in BoundaryRequestIds, st \in BoundaryStatuses, pad \in BoundaryPaddings}
    \cup {ConstructCall("GetValues", [names |-> n, padlen |-> pad]) :
            n \in {<<>>, <<Fill(65, 4)>>, <<Fill(71, 65536)>>}, pad \in BoundaryPaddings}
    \cup {ConstructCall("GetValuesResult", [pairs |-> m, padlen |-> pad]) :
            m \in {<<>>, <<<<Fill(65, 4), Fill(98, 5)>>>>, <<<<Fill(65, 4), Fill(72, 65536)>>>>},
            pad \in BoundaryPaddings}
    \cup {ConstructCall("UnknownType", [unknowntype |-> t, padlen |-> pad]) :
            t \in BoundaryTypes, pad \in BoundaryPaddings}

\* Version bytes other than Record._VERSION.
OtherVersions == {0, 2, 255}

\* Inputs to read_from_stream: every record type with request id 0 and
\* with request id 1, inputs that end inside a record, and, for each
\* version byte, a lone byte, part of a header, whole headers and whole
\* records.
SampleStreams ==
    {<<1, t, 0, id, 0, 0, 0, 0>> : t \in {2, 4, 5, 6, 7, 8, 9, 10, 200}, id \in {0, 1}}
    \cup {<<1, t, 0, id, 0, 8, 0, 0>> \o <<0, 1, 0, 0, 0, 0, 0, 0>> : t \in {1, 3, 11}, id \in {0, 1}}
    \cup {<<>>, <<1>>, <<1, 5, 0>>, <<1, 5, 0, 1, 0, 3, 0, 0, 30>>,
          <<1, 5, 0, 1, 0, 1, 2, 0, 30, 0>>}
    \cup UNION {{<<v>>, <<v, 5, 0>>, <<v, 5, 0, 1, 0, 0, 0, 0>>, <<v, 5, 0, 1, 0, 3, 0, 0>>,
                 <<v, 5, 0, 1, 0, 2, 1, 0, 30, 37, 0>>, <<v, 9, 0, 0, 0, 0, 0, 0>>,
                 <<v, 200, 255, 255, 255, 255, 255, 255>>,
                 <<v, 5, 0, 1, 0, 0, 0, 0, 1, 5, 0, 1, 0, 0, 0, 0>>} :
               v \in OtherVersions \cup {VERSION}}

SampleCallsRead == {[fn |-> "read_from_stream", b |-> b] : b \in SampleStreams}

\* One of the record constructors.
CallConstruct ==
    /\ call.fn = "construct"
    /\ outcome = Pending
    /\ outcome' = Observed(Construct(call.cls, call.args))
    /\ UNCHANGED call

\* Record.read_from_stream on a stream holding the bytes b.
CallReadFromStream ==
    /\ call.fn = "read_from_stream"
    /\ outcome = Pending
    /\ outcome' = read_from_stream(call.b)
    /\ UNCHANGED call

-----------------------------------------------------------------------------
(* The machines and their specifications.  Each specification runs one     *)
(* machine and leaves the others in their initial state.                   *)

vars == <<codecVars, callVars, poolVars, connVars>>

\* The connection machine at rest in the codec and pool specifications.
ConnIdle ==
    /\ ConnInit
    /\ variant = "pooled"
    /\ pipe_left = Unlimited

\* The pool machine at rest in the codec and connection specifications.
PoolIdle ==
    /\ PoolInit
    /\ min_workers = 1
    /\ max_workers = 1

\* The call machine at rest in the other specifications: no call to make.
CallIdle ==
    /\ call = NoCall
    /\ outcome = Pending

InitCodec == CodecInit /\ CallIdle /\ PoolIdle /\ ConnIdle

NextCodec ==
    \/ \E r \in ConstructedRecords : CodecWrite(r) /\ UNCHANGED <<callVars, poolVars, connVars>>
    \/ CodecClose /\ UNCHANGED <<callVars, poolVars, connVars>>
    \/ CodecRead /\ UNCHANGED <<callVars, poolVars, connVars>>

SpecCodec == InitCodec /\ [][NextCodec]_vars

\* The sample calls, one per initial state.
SampleCalls == SampleCallsNameValues \cup SampleCallsConstruct \cup SampleCallsRead

CallInit ==
    /\ call \in SampleCalls
    /\ outcome = Pending

InitCalls == CallInit /\ CodecInit /\ PoolIdle /\ ConnIdle

NextCalls ==
    \/ CallDictToNameValues /\ UNCHANGED <<codecVars, poolVars, connVars>>
    \/ CallNameValuesToDict /\ UNCHANGED <<codecVars, poolVars, connVars>>
    \/ CallConstruct /\ UNCHANGED <<codecVars, poolVars, connVars>>
    \/ CallReadFromStream /\ UNCHANGED <<codecVars, poolVars, connVars>>

SpecCalls == InitCalls /\ [][NextCalls]_vars

InitPool == PoolInit /\ CodecInit /\ CallIdle /\ ConnIdle

NextPool ==
    \/ Submit /\ UNCHANGED <<codecVars, callVars, connVars>>
    \/ \E w \in Threads : WorkerEnter(w) /\ UNCHANGED <<codecVars, callVars, connVars>>
    \/ \E w \in Threads : WorkerWake(w) /\ UNCHANGED <<codecVars, callVars, connVars>>
    \/ \E w \in Threads : WorkerRun(w) /\ UNCHANGED <<codecVars, callVars, connVars>>
    \/ \E w \in Threads : WorkerExit(w) /\ UNCHANGED <<codecVars, callVars, connVars>>
    \/ CleanerCheck /\ UNCHANGED <<codecVars, callVars, connVars>>

SpecPool == InitPool /\ [][NextPool]_vars

\* Fair thread scheduling: the cleaner thread and every worker thread keep
\* taking their steps; submit is a call nobody is bound to make.
FairSpecPool ==
    /\ SpecPool
    /\ WF_vars(CleanerCheck /\ UNCHANGED <<codecVars, callVars, connVars>>)
    /\ \A w \in Threads :
           WF_vars((WorkerEnter(w) \/ WorkerWake(w) \/ WorkerRun(w) \/ WorkerExit(w))
                   /\ UNCHANGED <<codecVars, callVars, connVars>>)

InitConn == ConnInit /\ CodecInit /\ CallIdle /\ PoolIdle

NextConn ==
    \/ \E frame \in ClientFrames : ConnRead(frame) /\ UNCHANGED <<codecVars, callVars, poolVars>>
    \/ \E h \in SampleHeaderLists, e \in BOOLEAN :
           AppStartResponse(h, e) /\ UNCHANGED <<codecVars, callVars, poolVars>>
    \/ \E len \in ChunkLengths : AppWrite(len) /\ UNCHANGED <<codecVars, callVars, poolVars>>
    \/ \E c \in BOOLEAN : AppReturn(c) /\ UNCHANGED <<codecVars, callVars, poolVars>>
    \/ \E len \in ChunkLengths : AppYield(len) /\ UNCHANGED <<codecVars, callVars, poolVars>>
    \/ AppRaise /\ UNCHANGED <<codecVars, callVars, poolVars>>
    \/ AppFinish /\ UNCHANGED <<codecVars, callVars, poolVars>>

SpecConn == InitConn /\ [][NextConn]_vars

-----------------------------------------------------------------------------
(* Properties of the thread pool (SpecPool, FairSpecPool)                  *)

\* C6: pool liveness.  Under fair scheduling of the workers and the cleaner,
\* and with no further call of submit required, every submitted task is
\* eventually dequeued by a worker; stated here for the runs in which no
\* task raises.
PoolLiveness ==
    \A t \in 1..MaxTasks :
        (num_submitted >= t) ~> ((\E k \in 1..Len(dequeued) : dequeued[k] = t) \/ raised # {})

\* C7: a task that raises does not end its worker: a worker leaves its loop
\* (and decrements num_workers) only on the cleaner's sentinel.
WorkerSurvivesTaskException ==
    \A w \in Threads : worker_pc[w] \in {"exiting", "dead"} => worker_item[w] = Sentinel

\* C8: pool ceiling.  max_workers is at least min_workers, num_workers never
\* exceeds max_workers, num_workers grows only in a submit that found no
\* idle worker and a count below the ceiling, and a submit that finds an
\* idle worker starts none and wakes at most one.
PoolCeiling ==
    /\ [](min_workers <= max_workers /\ num_workers <= max_workers)
    /\ [][num_workers' > num_workers =>
             /\ num_submitted' = num_submitted + 1
             /\ num_workers' = num_workers + 1
             /\ num_idle_workers = 0
             /\ num_workers < max_workers]_vars
    /\ [][(num_submitted' # num_submitted /\ num_idle_workers > 0) =>
             /\ num_workers' = num_workers
             /\ Cardinality({w \in Threads : worker_pc'[w] # worker_pc[w]}) <= 1
             /\ \A w \in Threads : worker_pc'[w] # worker_pc[w] =>
                    (worker_pc[w] = "waiting" /\ worker_pc'[w] = "notified")]_vars

\* C8 witness: the third submit found both workers of a pool with ceiling 2
\* busy and only enqueued its task.
PoolCeilingReached ==
    /\ max_workers = 2
    /\ num_workers = 2
    /\ num_submitted = 3
    /\ num_idle_workers = 0
    /\ Len(queue) > 0
    /\ Cardinality({w \in Threads : worker_pc[w] = "unstarted"}) = 1

\* C9: FIFO dispatch.  Task ids are given in submit order; the tasks
\* dequeued so far are in strictly increasing order (so none twice), are
\* tasks that were submitted, and the tasks still queued are all later than
\* every dequeued one and in submit order themselves.
FifoDispatch ==
    /\ \A i, j \in 1..Len(dequeued) : i < j => dequeued[i] < dequeued[j]
    /\ \A i \in 1..Len(dequeued) : dequeued[i] \in 1..num_submitted
    /\ \A i \in 1..Len(dequeued), j \in 1..Len(queue) :
           queue[j] # Sentinel => dequeued[i] < queue[j]
    /\ \A i, j \in 1..Len(queue) :
           (i < j /\ queue[i] # Sentinel /\ queue[j] # Sentinel) => queue[i] < queue[j]

\* C9 witness: three tasks dequeued by two workers while the cleaner's
\* sentinels went through the same queue.
FifoAcrossWorkersAndSentinels ==
    /\ Len(dequeued) = 3
    /\ num_sentinels > 0
    /\ Cardinality({w \in Threads : worker_pc[w] # "unstarted"}) >= 2

\* The number of retirement sentinels in a queue.
SentinelsIn(q) == Cardinality({i \in 1..Len(q) : q[i] = Sentinel})

\* Worker w executes its final decrement after dequeuing a sentinel.
RetiresOnSentinel(w) ==
    /\ worker_pc[w] = "exiting"
    /\ worker_pc'[w] = "dead"
    /\ worker_item[w] = Sentinel

\* C25: floor on cleanup.  A sentinel enters the queue only in a step taken
\* while num_workers > min_workers and some worker is idle, and as long as
\* no task has raised, a worker's exit on a sentinel leaves num_workers at
\* or above min_workers.
FloorOnCleanup ==
    /\ [][SentinelsIn(queue') > SentinelsIn(queue) =>
             (num_workers > min_workers /\ num_idle_workers > 0)]_vars
    /\ [][(raised' = {} /\ \E w \in Threads : RetiresOnSentinel(w)) =>
             num_workers' >= min_workers]_vars

\* Worker w takes the lock at the top of its loop and becomes idle.
BecomesIdle(w) == worker_pc[w] = "start" /\ worker_pc'[w] # "start"

\* C26: shrink liveness.  A worker that becomes idle while num_workers >
\* min_workers leaves the cleaner unblocked; the cleaner does not stay
\* blocked forever with num_workers > min_workers and a worker idle; and in
\* every fair run, once no further task is submitted, num_workers ends at
\* or below min_workers.
ShrinkLiveness ==
    /\ [][(num_workers > min_workers /\ \E w \in Threads : BecomesIdle(w)) =>
             cleaner_pc' # "waiting"]_vars
    /\ []<>(~(cleaner_pc = "waiting" /\ num_workers > min_workers /\ num_idle_workers > 0))
    /\ \A k \in 0..MaxTasks :
           <>[](num_submitted = k) => <>[](num_workers <= min_workers)

\* C26 witness: a pool that grew above its floor has been shrunk back to it
\* by one sentinel, no task having raised, and the cleaner is blocked again.
ShrunkToFloor ==
    /\ max_workers > min_workers
    /\ num_submitted >= 2
    /\ raised = {}
    /\ num_sentinels = 1
    /\ num_workers = min_workers
    /\ num_idle_workers > 0
    /\ cleaner_pc = "waiting"
    /\ \E w \in Threads : worker_pc[w] = "dead" /\ worker_item[w] = Sentinel

\* The worker threads that have been started and have not executed their
\* final decrement.
LiveWorkers == {w \in Threads : worker_pc[w] \notin {"unstarted", "dead"}}

\* The workers blocked in wait() or woken and not yet holding an item.
IdleWorkers == {w \in Threads : worker_pc[w] \in {"waiting", "notified"}}

\* C29: pool accounting.  In every state in which no thread holds the lock,
\* 0 <= num_idle_workers <= num_workers, num_workers is the number of
\* started workers that have not yet decremented it, and num_idle_workers
\* is the number of workers waiting for the queue or woken without an item.
PoolAccounting ==
    /\ 0 <= num_idle_workers
    /\ num_idle_workers <= num_workers
    /\ num_workers = Cardinality(LiveWorkers)
    /\ num_idle_workers = Cardinality(IdleWorkers)

\* C29 witness: of three started workers one has retired on a sentinel, one
\* has been woken and holds no item yet, and one is off the idle count with
\* a task that raised, its decrement still to come.
AccountsAcrossWorkerStates ==
    /\ num_workers = 2
    /\ num_idle_workers = 1
    /\ \E w \in Threads : worker_pc[w] = "dead"
    /\ \E w \in Threads : worker_pc[w] = "notified"
    /\ \E w \in Threads : worker_pc[w] = "exiting" /\ worker_item[w] # Sentinel

\* A submitted task is still in the queue.
TaskQueued == \E i \in 1..Len(queue) : queue[i] # Sentinel

\* C30: growth on backpressure.  Whenever a task waits in the queue and
\* every existing worker is executing a task, num_workers equals
\* max_workers; stated here for the states with at least one worker that
\* are reached without a task raising and without a sentinel.
GrowthOnBackpressure ==
    (/\ raised = {}
     /\ num_sentinels = 0
     /\ LiveWorkers # {}
     /\ TaskQueued
     /\ \A w \in LiveWorkers : worker_pc[w] = "running") =>
        num_workers = max_workers

-----------------------------------------------------------------------------
(* Properties of the record codec (SpecCodec)                              *)

\* A record that serializes under its own variant's type: every record but
\* a CustomRecord constructed with one of the eleven defined types.
OwnType(r) == r.kind # "Custom" \/ r.type \notin 1..11

-----------------------------------------------------------------------------
(* Properties of a connection (SpecConn)                                   *)

\* The records sent between the k-th accepted BeginRequest and the next.
ResponseOf(k) ==
    SubSeq(sock_out, req_marks[k].at + 1,
           IF k < Len(req_marks) THEN req_marks[k + 1].at ELSE Len(sock_out))

\* The latest accepted request has not completed.
InFlight == req_marks # <<>> /\ Len(req_marks) \notin completed

RECURSIVE DataSum(_)
\* The concatenation of a sequence of byte strings.
DataSum(parts) == IF parts = <<>> THEN <<>> ELSE DataConcat(parts[1], DataSum(Tail(parts)))

\* The contents of the Stdout records among rs, concatenated.
StdoutBytes(rs) ==
    DataSum([i \in 1..Len(rs) |-> IF rs[i].kind = "Stdout" THEN rs[i].content ELSE <<>>])

RECURSIVE HeaderLinesBlock(_)
\* "name: value\r\n" for each header.
HeaderLinesBlock(hs) ==
    IF hs = <<>> THEN <<>>
    ELSE DataSum(<<hs[1][1], LitColon, hs[1][2], LitCRLF, HeaderLinesBlock(Tail(hs))>>)

\* The header block: status line, header lines, blank line.
HeaderBlock(args) ==
    IF args = NoArgs THEN <<>>
    ELSE DataSum(<<LitHTTP, args.status, LitCRLF, HeaderLinesBlock(args.headers), LitCRLF>>)

IsDataPrefix(a, b) == a = DataTake(b, DataLen(a))

\* C1: keep-conn discipline.  The step that writes a request's EndRequest
\* leaves the handler reading on the open socket if the request had
\* keep_conn, and leaves it done with the socket closed if not; a
\* BeginRequest read after a completed request starts a new request; a
\* handler that is done reads nothing more.
KeepConnDiscipline ==
    /\ [][(conn_pc = "iter" /\ Len(sock_out') > Len(sock_out)
             /\ sock_out'[Len(sock_out')].kind = "EndRequest") =>
             IF req.keep_conn
             THEN conn_pc' = "read" /\ sock_open' /\ conn_exc' = NoExc
             ELSE conn_pc' = "done" /\ ~sock_open' /\ conn_exc' = NoExc]_vars
    /\ [][(req_marks # <<>> /\ ~InFlight /\ num_reads' = num_reads + 1
             /\ last_read'.kind = "BeginRequest") =>
             /\ Len(req_marks') = Len(req_marks) + 1
             /\ conn_pc' = "read"
             /\ sock_open'
             /\ conn_exc' = NoExc]_vars
    /\ [][conn_pc = "done" => (num_reads' = num_reads /\ ~sock_open)]_vars

\* The records of one response: Stdout records of the request with
\* non-empty content, one Stdout record with empty content, one EndRequest
\* record with application status 0 and REQUEST_COMPLETE.
WholeResponse(rs, id) ==
    /\ Len(rs) >= 3
    /\ \A i \in 1..(Len(rs) - 2) :
           rs[i].kind = "Stdout" /\ rs[i].request_id = id /\ DataLen(rs[i].content) > 0
    /\ rs[Len(rs) - 1] = OutStdoutRecord(id, <<>>)
    /\ rs[Len(rs)] = EndRequestRecord(id, Wide(0, 0), "REQUEST_COMPLETE", 0)

\* The records of a response under way or abandoned: non-empty Stdout
\* records of the request, then at most the empty one.
PartResponse(rs, id) ==
    \A i \in 1..Len(rs) :
        /\ rs[i].kind = "Stdout"
        /\ rs[i].request_id = id
        /\ DataLen(rs[i].content) = 0 => i = Len(rs)

ChunkingBound ==
    /\ \A i \in 1..Len(sock_out) :
           sock_out[i].kind = "Stdout" => DataLen(sock_out[i].content) <= 65535
    /\ conn_exc # Error("ValueError", "Content too long")

\* C4 witness: the coalescing gateway sent a full record made of bytes of
\* two application writes after a header block longer than a record.
FullRecordAcrossWrites ==
    /\ variant = "single"
    /\ accepted # NoArgs
    /\ DataLen(HeaderBlock(accepted)) > RECORD_MAX_DATA_LENGTH
    /\ \E i \in 1..Len(sock_out) :
           /\ sock_out[i].kind = "Stdout"
           /\ DataLen(sock_out[i].content) = 65535
           /\ \E j, k \in 1..Len(sock_out[i].content) :
                  /\ sock_out[i].content[j].src = "value-long"
                  /\ sock_out[i].content[k].src = "chunk2"

\* C5: strict serialization of requests on a connection.  At most one
\* request is begun and not completed; the application runs only when every
\* earlier request has completed; a BeginRequest read while a request is in
\* flight, whatever its id, fails the connection with "Concurrent request"
\* and starts nothing.
StrictSerialization ==
    /\ [](/\ \A k \in 1..(Len(req_marks) - 1) : k \in completed
          /\ conn_pc \in {"call", "iter"} => req_marks # <<>>)
    /\ [][(InFlight /\ num_reads' = num_reads + 1 /\ last_read'.kind = "BeginRequest") =>
             /\ conn_exc' = Error("ValueError", "Concurrent request")
             /\ conn_pc' = "done"
             /\ ~sock_open'
             /\ req_marks' = req_marks
             /\ app_calls' = app_calls]_vars
    /\ [][app_calls' # app_calls =>
             /\ app_calls' = app_calls + 1
             /\ \A k \in 1..(Len(req_marks') - 1) : k \in completed]_vars

\* C5 witness: on a kept connection the first request completed, a second
\* one was begun, and a BeginRequest with another id then failed the
\* connection.
SecondRequestThenConcurrentBegin ==
    /\ completed = {1}
    /\ Len(req_marks) = 2
    /\ req_marks[2].id = 1
    /\ last_read.kind = "BeginRequest"
    /\ last_read.request_id = 2
    /\ conn_exc = Error("ValueError", "Concurrent request")

-----------------------------------------------------------------------------
(* Properties of the codec functions (SpecCalls)                           *)

\* The call has been made.
Called(fn) == call.fn = fn /\ outcome # Pending

IsLatin1(str) == \A k \in 1..Len(str) : str[k] \in 0..255

\* The bytes of one length n as the format writes it: one byte below 128,
\* else four bytes, big-endian, with the high bit set.
LengthBytes(n) ==
    IF n < 128 THEN <<n>>
    ELSE <<128 + (n \div 16777216), (n \div 65536) % 256, (n \div 256) % 256, n % 256>>

RECURSIVE NameValueBytes(_)
\* The format's encoding of a mapping with ISO-8859-1 names and values.
NameValueBytes(m) ==
    IF m = <<>> THEN <<>>
    ELSE LengthBytes(Len(m[1][1])) \o LengthBytes(Len(m[1][2])) \o m[1][1] \o m[1][2]
         \o NameValueBytes(Tail(m))

\* C11: name-value round-trip.  For every mapping of ISO-8859-1 names to
\* values, dict_to_name_values writes each length in one byte iff it is
\* below 128 and else in four big-endian bytes with the high bit set, and
\* name_values_to_dict of the result is the mapping; name_values_to_dict
\* also reads a length below 128 written in the four-byte form.
NameValueRoundTrip ==
    /\ (Called("dict_to_name_values")
          /\ \A i \in 1..Len(call.d) : IsLatin1(call.d[i][1]) /\ IsLatin1(call.d[i][2])) =>
           /\ outcome.encoded = [kind |-> "Bytes", bytes |-> NameValueBytes(call.d)]
           /\ outcome.decoded.kind = "Dict"
           /\ Len(outcome.decoded.items) = Len(call.d)
           /\ DictEq(outcome.decoded.items, call.d)
    /\ (Called("name_values_to_dict")
          /\ call.b \in {<<128, 0, 0, 1, 2, 65, 66, 67>>, <<1, 128, 0, 0, 2, 65, 66, 67>>}) =>
           outcome = [kind |-> "Dict", items |-> <<<<<<65>>, <<66, 67>>>>>>]

\* C11 witness: a mapping of two items, with a name of 128 characters and a
\* value of 127, a name of 300 and a value of 128, came back from the round
\* trip.
RoundTripAcrossLengthForms ==
    /\ Called("dict_to_name_values")
    /\ call.d = <<<<Repeat(67, 128), Repeat(69, 127)>>, <<Repeat(68, 300), Repeat(70, 128)>>>>
    /\ outcome.decoded.kind = "Dict"
    /\ DictEq(outcome.decoded.items, call.d)

\* The record that read_from_stream returned, if it returned one.
ReadRecord(r) == r # None /\ ~IsError(r)

\* The input holds a whole record of this version whose header has the
\* given type and a request id other than 0.
WholeRecordWithRequestId(b, types) ==
    /\ Len(b) >= 8
    /\ b[1] = VERSION
    /\ b[2] \in types
    /\ UnpackU16(SubSeq(b, 3, 4)) # 0
    /\ Len(b) >= 8 + UnpackU16(SubSeq(b, 5, 6)) + b[7]

\* C12 (as amended): constructing a BeginRequest, AbortRequest, EndRequest,
\* Params, Stdin, Stdout, Stderr or Data record with request id 0 fails with
\* "Invalid request ID", and so does reading one; a constructed or read
\* GetValues, GetValuesResult or UnknownType record has request id 0, and
\* reading one whose header has another request id fails.  A Custom record
\* with request id 0 and its other arguments in range is constructed.
RequestIdRule ==
    /\ (Called("construct") /\ call.cls \in RequestKinds /\ call.args.reqid = 0) =>
           outcome = Error("ValueError", "Invalid request ID")
    /\ (Called("construct") /\ call.cls \in ManagementKinds /\ ~IsError(outcome)) =>
           outcome.request_id = 0
    /\ (Called("construct") /\ call.cls = "Custom" /\ call.args.reqid = 0
          /\ call.args.type \in 0..255 /\ call.args.padlen \in 0..255
          /\ call.args.content.n < 65536) =>
           (~IsError(outcome) /\ outcome.kind = "Custom" /\ outcome.request_id = 0)
    /\ Called("read_from_stream") =>
           /\ (ReadRecord(outcome.result) /\ outcome.result.kind \in ManagementKinds) =>
                  outcome.result.request_id = 0
           /\ (ReadRecord(outcome.result) /\ outcome.result.kind \in RequestKinds) =>
                  outcome.result.request_id # 0
           /\ WholeRecordWithRequestId(call.b, {9, 10, 11}) =>
                  outcome.result = Error("ValueError", "Invalid request ID")

\* C12 as stated, for construction: also a Custom record with request id 0
\* is refused.
RequestIdZeroRefusedForCustomToo ==
    (Called("construct") /\ call.cls \in RequestKinds \cup {"Custom"} /\ call.args.reqid = 0) =>
        IsError(outcome)

\* C12 witness: a Stdin record with request id 0 and every other argument
\* in range was refused.
StdinWithRequestIdZeroRefused ==
    /\ Called("construct")
    /\ call = ConstructCall("Stdin", [reqid |-> 0, content |-> Fill(30, 2), padlen |-> 255])
    /\ outcome = Error("ValueError", "Invalid request ID")

\* Every argument of the constructor call is within its field's width.
ArgsInRange(cls, a) ==
    /\ a.padlen \in 0..255
    /\ cls \notin ManagementKinds => a.reqid \in 0..65535
    /\ cls = "Custom" => a.type \in 0..255
    /\ cls = "UnknownType" => a.unknowntype \in 0..255
    /\ cls \in SimpleKinds \cup {"Custom"} => a.content.n < 65536
    /\ cls = "EndRequest" => a.appstat.hi \in 0..65535

\* The names or pairs given to a GetValues or GetValuesResult constructor
\* encode to 2^16 bytes or more.
EncodesTooLong(cls, a) ==
    \/ cls = "GetValues" /\ \E k \in 1..Len(a.names) : a.names[k].n >= 65536
    \/ cls = "GetValuesResult"
         /\ \E k \in 1..Len(a.pairs) : a.pairs[k][1].n + a.pairs[k][2].n >= 65536

\* C13 (as amended): a constructor call succeeds, with the request id and
\* padding length given, when the request id is in 0..65535 (and not 0 for
\* the eight request kinds), the padding length in 0..255, a Custom or
\* UnknownType type in 0..255, the content of a Params, Stdin, Stdout,
\* Stderr, Data or Custom record shorter than 2^16 and the application
\* status in 0..2^32-1; otherwise it raises ValueError and yields no record.
\* A GetValues or GetValuesResult record whose names or pairs encode to 2^16
\* bytes or more is constructed, and to_bytes refuses it.
RangeValidation ==
    Called("construct") =>
        /\ IF ArgsInRange(call.cls, call.args)
                /\ (call.cls \in RequestKinds => call.args.reqid # 0)
           THEN /\ ~IsError(outcome)
                /\ outcome.kind = call.cls
                /\ outcome.padding_length = call.args.padlen
                /\ outcome.request_id =
                       (IF call.cls \in ManagementKinds THEN 0 ELSE call.args.reqid)
           ELSE IsError(outcome) /\ outcome.exc = "ValueError"
        /\ (EncodesTooLong(call.cls, call.args) /\ ~IsError(outcome)) =>
               outcome.to_bytes = Error("ValueError", "Content too long")

\* C13 as stated, for the content length: no record is constructed whose
\* content is 2^16 bytes or longer.
ContentLengthCheckedAtConstruction ==
    (Called("construct")
       /\ \/ EncodesTooLong(call.cls, call.args)
          \/ call.cls \in SimpleKinds \cup {"Custom"} /\ call.args.content.n >= 65536) =>
        IsError(outcome)

\* C13 witness: a Custom record was constructed with every argument at the
\* top of its range.
ConstructedAtUpperLimits ==
    /\ Called("construct")
    /\ call = ConstructCall("Custom", [type |-> 255, reqid |-> 65535,
                                       content |-> Fill(0, 65535), padlen |-> 255])
    /\ ~IsError(outcome)
    /\ outcome.to_bytes = [kind |-> "Bytes", len |-> 8 + 65535 + 255]

\* C14: version rejection.  read_from_stream of a non-empty input whose
\* first byte is not the version 1 raises and returns no record, whatever
\* the other bytes are: "Unknown record version" once the eight header
\* bytes are there, EOFError when the input ends before them.
VersionRejection ==
    (Called("read_from_stream") /\ Len(call.b) >= 1 /\ call.b[1] # 1) =>
        outcome.result = (IF Len(call.b) >= 8 THEN Error("ValueError", "Unknown record version")
                          ELSE Error("EOFError", ""))

\* C14 witness: an input that is a whole Stdin record but for its version
\* byte 2 was refused, and so was one whose header of version 255 is
\* followed by nothing.
OtherVersionsRefused ==
    /\ Called("read_from_stream")
    /\ call.b \in {<<2, 5, 0, 1, 0, 2, 1, 0, 30, 37, 0>>, <<255, 5, 0, 1, 0, 3, 0, 0>>}
    /\ outcome.result = Error("ValueError", "Unknown record version")

-----------------------------------------------------------------------------
(* Properties of request processing (SpecConn)                             *)

\* C15: the environ given to the application has wsgi.url_scheme equal to
\* the REQUEST_SCHEME parameter when the request's Params had one and to
\* "http" when they had none, and the application is called in both cases:
\* processing never ends with a KeyError for REQUEST_SCHEME.
UrlSchemeFromRequestScheme ==
    /\ environ # NoEnviron =>
           environ.url_scheme =
               (IF StrREQUEST_SCHEME \in DictKeys(environ.params)
                THEN DictGet(environ.params, StrREQUEST_SCHEME).value
                ELSE StrHttp)
    /\ conn_exc # Error("KeyError", "REQUEST_SCHEME")

\* The application is running in the pooled gateway.
PooledAppRunning == variant = "pooled" /\ conn_pc \in {"call", "iter"}

\* A record of the latest request's response has been sent.
Flushed == req_marks # <<>> /\ ResponseOf(Len(req_marks)) # <<>>

\* C16: header buffering in the pooled gateway.  While the application
\* runs, a start_response call is refused with "Headers already written"
\* once a record of the response has been sent; before that it is refused
\* with "Headers already set" when an earlier call was accepted and no
\* exception info is given, and is accepted otherwise, the first call
\* always.  A refused call changes nothing; an accepted one replaces the
\* buffered lines and sends nothing.  On the steps of the machine: a
\* start_response step sends no record, and either records its arguments
\* as the accepted ones or ends the handler with one of the two errors and
\* the accepted arguments as they were.
HeaderBuffering ==
    /\ [](PooledAppRunning =>
            \A h \in SampleHeaderLists, e \in BOOLEAN :
                LET S == PooledStartResponse(CurrentS, SampleStatus, h, e) IN
                IF Flushed
                THEN S = [CurrentS EXCEPT !.exc = Error("ValueError", "Headers already written")]
                ELSE IF accepted # NoArgs /\ ~e
                THEN S = [CurrentS EXCEPT !.exc = Error("ValueError", "Headers already set")]
                ELSE S = [CurrentS EXCEPT !.req.headers = HeaderLines(SampleStatus, h)])
    /\ [][(PooledAppRunning /\ app_ops' = app_ops + 1 /\ body_given' = body_given) =>
             /\ sock_out' = sock_out
             /\ \/ /\ conn_exc' = NoExc
                   /\ conn_pc' = conn_pc
                   /\ accepted' # NoArgs
                   /\ req'.headers = HeaderLines(accepted'.status, accepted'.headers)
                   /\ ~Flushed
                \/ /\ conn_exc' = Error("ValueError", "Headers already written")
                   /\ conn_pc' = "done"
                   /\ accepted' = accepted
                   /\ req' = req
                   /\ Flushed
                \/ /\ conn_exc' = Error("ValueError", "Headers already set")
                   /\ conn_pc' = "done"
                   /\ accepted' = accepted
                   /\ req' = req
                   /\ accepted # NoArgs
                   /\ ~Flushed]_vars

\* C16 witness: the application called start_response twice before any body
\* byte, the second call (with exception info) replaced the buffered
\* headers of the first, and the response then began with the second
\* call's header block.
SecondStartResponseReplaced ==
    /\ variant = "pooled"
    /\ conn_pc = "iter"
    /\ app_ops = 3
    /\ Len(body_given) = 1
    /\ DataLen(body_given[1]) = 65535
    /\ accepted # NoArgs
    /\ DataLen(HeaderBlock(accepted)) > RECORD_MAX_DATA_LENGTH
    /\ Len(ResponseOf(Len(req_marks))) = 3
    /\ StdoutBytes(ResponseOf(Len(req_marks))) = DataConcat(HeaderBlock(accepted), body_given[1])

\* The application's result is exhausted in the pooled gateway and the tail
\* of _process runs: a step out of the iteration that is not a step of the
\* application.
PooledFinishStep ==
    /\ variant = "pooled"
    /\ conn_pc = "iter"
    /\ conn_pc' # "iter"
    /\ app_ops' = app_ops
    /\ conn_exc' # Error("ApplicationError", "")

\* C17: in the pooled gateway, when the result is exhausted and the
\* application has passed no body byte: if start_response was never
\* accepted the handler fails with "Headers not set" and sends nothing, no
\* empty Stdout record and no EndRequest; otherwise it sends the header
\* block, then the empty Stdout record, then the EndRequest, the empty
\* record never before the whole header block (fewer records when the pipe
\* breaks, none when the headers cannot be encoded).
HeadersFlushedAtEnd ==
    [][(PooledFinishStep /\ DataLen(DataSum(body_given)) = 0) =>
          LET added == SubSeq(sock_out', Len(sock_out) + 1, Len(sock_out'))
              n     == Len(added)
          IN IF accepted = NoArgs
             THEN /\ conn_exc' = Error("ValueError", "Headers not set")
                  /\ conn_pc' = "done"
                  /\ added = <<>>
                  /\ completed' = completed
             ELSE IF IsError(EncodeLatin1Data(HeaderBlock(accepted)))
             THEN /\ conn_exc' = Error("UnicodeEncodeError", "ISO-8859-1")
                  /\ added = <<>>
                  /\ completed' = completed
             ELSE /\ conn_exc' = NoExc
                  /\ \A i \in 1..n : added[i].request_id = req.id
                  /\ \A i \in 1..n :
                         (added[i].kind = "Stdout" /\ DataLen(added[i].content) = 0) =>
                             StdoutBytes(SubSeq(added, 1, i - 1)) = HeaderBlock(accepted)
                  /\ \A i \in 1..n : added[i].kind = "EndRequest" =>
                         (i = n /\ i > 1 /\ added[i - 1].kind = "Stdout"
                            /\ DataLen(added[i - 1].content) = 0)
                  /\ IsDataPrefix(StdoutBytes(added), HeaderBlock(accepted))
                  /\ IF pipe_left = Unlimited
                     THEN /\ added[n].kind = "EndRequest"
                          /\ completed' = completed \cup {Len(req_marks)}
                     ELSE /\ n <= pipe_left
                          /\ pipe_left' = 0]_vars

\* C17 witness: a pooled request completed whose application called
\* start_response and yielded one empty chunk; the response is the header
\* block in two records, the empty Stdout record and the EndRequest.
HeadersFlushedWithoutBody ==
    /\ variant = "pooled"
    /\ 1 \in completed
    /\ body_given = <<<<>>>>
    /\ accepted # NoArgs
    /\ LET rs == ResponseOf(1) IN
       /\ Len(rs) = 4
       /\ DataConcat(rs[1].content, rs[2].content) = HeaderBlock(accepted)
       /\ rs[3].kind = "Stdout" /\ DataLen(rs[3].content) = 0
       /\ rs[4].kind = "EndRequest"

\* C18: close hook, both gateways.  Once the application has returned a
\* result that has a close method, close is not called while the result is
\* iterated and has been called exactly once when request processing is
\* left, however it is left: after the EndRequest, by an error raised while
\* iterating, by "Headers not set", by a broken pipe while a record is
\* written.  A result without close, or an application call that raised
\* before returning one, gets no close call.
CloseHook ==
    /\ [](IF has_close
          THEN close_calls = (IF conn_pc = "iter" THEN 0 ELSE 1)
          ELSE close_calls = 0)
    /\ [][(has_close /\ conn_pc = "iter" /\ conn_pc' # "iter") =>
             (close_calls = 0 /\ close_calls' = 1 /\ has_close')]_vars
    /\ [][close_calls' \in {close_calls, close_calls + 1, 0}]_vars

\* C18 witness: in the single-threaded gateway a record could not be
\* written for a broken pipe while the result was iterated, and the
\* result's close had been called once when the handler was left.
ClosedAfterBrokenPipe ==
    /\ variant = "single"
    /\ has_close
    /\ close_calls = 1
    /\ conn_pc = "done"
    /\ conn_exc = Error("BrokenPipeError", "")
    /\ body_given # <<>>

\* C19: broken-pipe tolerance, both gateways.  A broken pipe while a record
\* is written never leaves the handler as an error; the handler is then
\* done with the socket closed, and a handler that is done writes no
\* further record.
BrokenPipeTolerance ==
    /\ [](conn_exc # Error("BrokenPipeError", ""))
    /\ [](conn_pc = "done" => ~sock_open)
    /\ [][conn_pc = "done" => sock_out' = sock_out]_vars

\* The input b ends after at least one byte of a version 1 record and before
\* the record's 8 + content_length + padding_length bytes.
EndsInsideRecord(b) ==
    /\ Len(b) >= 1
    /\ b[1] = VERSION
    /\ \/ Len(b) < 8
       \/ Len(b) < 8 + UnpackU16(SubSeq(b, 5, 6)) + b[7]

\* C20: EOF classification in the pooled gateway.  read_from_stream returns
\* None for the empty input only and raises EOFError for input that ends
\* inside a record.  A read that meets the end of input at a record
\* boundary ends the handler without error, with the socket closed, nothing
\* written and the application not called, when no request is in flight,
\* and with EOFError when one is; a read that meets the end inside a record
\* ends the handler with EOFError.
EofClassification ==
    /\ [](\A b \in ClientFrames :
            /\ (read_from_stream(b).result = None) <=> (b = <<>>)
            /\ EndsInsideRecord(b) => read_from_stream(b).result = Error("EOFError", ""))
    /\ [][(variant = "pooled" /\ num_reads' = num_reads + 1) =>
             /\ last_read' = None =>
                    /\ conn_pc' = "done"
                    /\ ~sock_open'
                    /\ sock_out' = sock_out
                    /\ app_calls' = app_calls
                    /\ conn_exc' = (IF InFlight THEN Error("EOFError", "") ELSE NoExc)
             /\ last_read' = Error("EOFError", "") =>
                    /\ conn_pc' = "done"
                    /\ ~sock_open'
                    /\ sock_out' = sock_out
                    /\ app_calls' = app_calls
                    /\ conn_exc' = Error("EOFError", "")]_vars

\* C20 witness: on a kept pooled connection a request completed, and the
\* end of input at the next record boundary ended the handler without
\* error.
CleanCloseAfterCompletedRequest ==
    /\ variant = "pooled"
    /\ completed = {1}
    /\ Len(req_marks) = 1
    /\ last_read = None
    /\ conn_pc = "done"
    /\ conn_exc = NoExc
    /\ ~sock_open

-----------------------------------------------------------------------------
(* Properties of the record loop (SpecConn)                                *)

\* The step reads a record (not the end of input, not an error).
ReadsRecord == num_reads' = num_reads + 1 /\ ReadRecord(last_read')

\* C21: in both gateways a record with request id 0 that the loop reads
\* (GetValues, GetValuesResult, UnknownType, Custom), with or without a
\* request in flight, ends the handler with "Unknown management record
\* type": the socket is closed, nothing is written, the request and its
\* buffers are as they were and the application is not called.  No
\* GetValuesResult or UnknownType record is ever sent.
ManagementRecordsRejected ==
    /\ [][(ReadsRecord /\ last_read'.request_id = 0) =>
             /\ conn_exc' = Error("ValueError", "Unknown management record type")
             /\ conn_pc' = "done"
             /\ ~sock_open'
             /\ sock_out' = sock_out
             /\ req' = req
             /\ app_calls' = app_calls]_vars
    /\ [](\A i \in 1..Len(sock_out) : sock_out[i].kind \in {"Stdout", "EndRequest"})

\* C21 witness: a GetValues record read while a request was in flight, its
\* Params already begun, ended the handler.
GetValuesRejectedMidRequest ==
    /\ InFlight
    /\ req # NoReq
    /\ Len(req.params) > 0
    /\ last_read = GetValuesRecord(<<>>, 0)
    /\ conn_exc = Error("ValueError", "Unknown management record type")
    /\ conn_pc = "done"

\* C22: in both gateways a record other than BeginRequest with a request
\* id other than 0, read when no request is in flight (before any request
\* or after a completed one) or with an id other than that of the request
\* in flight, ends the handler with "Missing request": no request's
\* buffers change, the application is not called and nothing is written.
MissingRequestRejected ==
    [][(/\ ReadsRecord
        /\ last_read'.request_id # 0
        /\ last_read'.kind # "BeginRequest"
        /\ \/ ~InFlight
           \/ last_read'.request_id # req_marks[Len(req_marks)].id) =>
          /\ conn_exc' = Error("ValueError", "Missing request")
          /\ conn_pc' = "done"
          /\ ~sock_open'
          /\ req' = req
          /\ app_calls' = app_calls
          /\ sock_out' = sock_out]_vars

\* C23: in both gateways an AbortRequest, EndRequest, Stdout, Stderr, Data
\* or Custom record with the id of the request in flight ends the handler
\* with "Unknown request record type": the request is not processed, the
\* application is not called, and no record has been written for the
\* request.
UnknownRequestRecordsRejected ==
    [][(/\ ReadsRecord
        /\ InFlight
        /\ last_read'.request_id = req_marks[Len(req_marks)].id
        /\ last_read'.kind \in {"AbortRequest", "EndRequest", "Stdout", "Stderr", "Data",
                                "Custom"}) =>
          /\ conn_exc' = Error("ValueError", "Unknown request record type")
          /\ conn_pc' = "done"
          /\ ~sock_open'
          /\ req' = req
          /\ app_calls' = app_calls
          /\ completed' = completed
          /\ sock_out' = sock_out
          /\ ResponseOf(Len(req_marks)) = <<>>]_vars

\* C23 witness: an AbortRequest for the request in flight, read after the
\* request's Params and part of its Stdin, ended the handler.
AbortRequestRejectedMidRequest ==
    /\ InFlight
    /\ req # NoReq
    /\ Len(req.params) > 0
    /\ Len(req.stdin) > 0
    /\ last_read = AbortRequestRecord(1, 0)
    /\ conn_exc = Error("ValueError", "Unknown request record type")
    /\ conn_pc = "done"
    /\ app_calls = 0

\* The step reads, in the pooled gateway, a record of the given kind with
\* the id of the request in flight.
PooledReadsForRequest(kind) ==
    /\ variant = "pooled"
    /\ ReadsRecord
    /\ InFlight
    /\ last_read'.kind = kind
    /\ last_read'.request_id = req_marks[Len(req_marks)].id

\* C24: request assembly in the pooled gateway.  A BeginRequest starts a
\* request with empty buffers.  A Params record appends its content to the
\* params buffer and a Stdin record with content appends it to the stdin
\* buffer, and neither does anything else (an empty Params record changes
\* nothing).  The application is called only on reading an empty Stdin
\* record with the id of the request in flight, at most once for a request,
\* and then with an environ decoded from the whole params buffer and a
\* wsgi.input that reads the whole stdin buffer.
RequestAssembly ==
    /\ [][(variant = "pooled" /\ ReadsRecord /\ last_read'.kind = "BeginRequest"
             /\ conn_exc' = NoExc) =>
             (req'.params = <<>> /\ req'.stdin = <<>> /\ app_calls' = app_calls)]_vars
    /\ [][PooledReadsForRequest("Params") =>
             /\ req' = [req EXCEPT !.params = req.params \o last_read'.content]
             /\ conn_pc' = "read"
             /\ conn_exc' = NoExc
             /\ app_calls' = app_calls
             /\ sock_out' = sock_out]_vars
    /\ [][(PooledReadsForRequest("Stdin") /\ last_read'.content # <<>>) =>
             /\ req' = [req EXCEPT !.stdin = req.stdin \o last_read'.content]
             /\ conn_pc' = "read"
             /\ conn_exc' = NoExc
             /\ app_calls' = app_calls
             /\ sock_out' = sock_out]_vars
    /\ [][(variant = "pooled" /\ app_calls' # app_calls) =>
             /\ PooledReadsForRequest("Stdin")
             /\ last_read'.content = <<>>
             /\ app_calls = Cardinality(completed)
             /\ app_calls' = app_calls + 1
             /\ req' = req
             /\ name_values_to_dict(req.params) = [kind |-> "Dict", items |-> environ'.params]
             /\ environ'.input = req.stdin]_vars
    /\ [](variant = "pooled" => app_calls <= Len(req_marks))

\* C24 witness: the pooled application was called with REQUEST_SCHEME=https
\* in its environ after the parameter's bytes came in two Params records
\* with a Stdin record between them, and with that Stdin content as input.
AssembledFromInterleavedRecords ==
    /\ variant = "pooled"
    /\ app_calls = 1
    /\ num_reads = 5
    /\ environ # NoEnviron
    /\ environ.params = <<<<StrREQUEST_SCHEME, StrHttps>>>>
    /\ environ.input = <<104, 105>>
    /\ req.params = SchemeParams

-----------------------------------------------------------------------------
(* Properties of the single-threaded gateway (SpecConn)                    *)

\* The application of src/wsgi.py is running: between two calls of
\* _write_stdout.
SingleRunning == variant = "single" /\ conn_pc \in {"call", "iter"}

\* C27: coalescing in src/wsgi.py.  Between the _write_stdout calls of a
\* request, the contents of the Stdout records sent for it followed by the
\* buffer are the byte strings written, in call order; _stdout_length is
\* the buffer's size and stays in 0..65534; and the step that ends
\* processing sends the buffer, if it holds anything, then the empty Stdout
\* record and the EndRequest record.
CoalescedOutput ==
    /\ [](SingleRunning =>
             DataConcat(StdoutBytes(ResponseOf(Len(req_marks))), req.stdout)
                 = DataSum(stdout_writes))
    /\ []((variant = "single" /\ req # NoReq /\ conn_pc # "done") =>
             /\ 0 <= req.stdout_length
             /\ req.stdout_length < RECORD_MAX_DATA_LENGTH
             /\ req.stdout_length = DataLen(req.stdout))
    /\ [][(variant = "single" /\ conn_pc = "iter" /\ completed' # completed) =>
             /\ sock_out'[Len(sock_out') - 1] = OutStdoutRecord(req.id, <<>>)
             /\ sock_out'[Len(sock_out')].kind = "EndRequest"
             /\ req.stdout # <<>> =>
                    /\ Len(sock_out') = Len(sock_out) + 3
                    /\ sock_out'[Len(sock_out') - 2] = OutStdoutRecord(req.id, req.stdout)
             /\ req.stdout = <<>> => Len(sock_out') = Len(sock_out) + 2]_vars

\* C28: connection isolation in src/wsgi.py.  When the handling of a
\* connection has ended, with or without an error, that connection's socket
\* is closed, the accept loop is running and the listening socket is open.
ConnectionIsolation ==
    (variant = "single" /\ conn_pc = "done") =>
        /\ ~sock_open
        /\ RunAfterHandler(conn_exc) = [loop |-> "accepting", server_socket_open |-> TRUE]

=============================================================================
